---- MODULE Spec2Model ----
(***************************************************************************)
(* Movement Brokering Engine of tesseracts-world: the gateway              *)
(* (src/src/core/gateway.py), the route optimizer (src/src/core/router.py) *)
(* and the provider adapters they call (src/src/adapters).                 *)
(*                                                                         *)
(* Units.  Times are whole minutes; the clock advances in steps of         *)
(* ClockStep minutes.  Money is whole dollars.  A score of 1.0 is the      *)
(* integer One; weights and confidence are hundredths; a worker rating is  *)
(* counted in half stars.                                                  *)
(* Python floats are modelled by exact arithmetic on these grids; the one  *)
(* place where rounding decides the outcome on the grid (a weight sum      *)
(* exactly 0.01 away from 1.0) is a nondeterministic choice.               *)
(***************************************************************************)
EXTENDS Integers, Sequences, FiniteSets, TLC

\* ------------------------------------------------------------ bounds
MaxTicks == 1
MaxRequests == 1
MaxAccepts == 2
MaxJobs == 2
MaxCost == 110
MaxStops == 5
MaxConnections == 3

\* ------------------------------------------------- program constants
MockQuoteTtl == 20
UberQuoteTtl == 15
MockJobMinutes == 30
MockPickupDelayUrgent == 5
MockPickupDelay == 15
UberPickupDelay == 5
MockConfidence == 90
UberConfidence == 80
UberRideSeconds == 600
UberDeliverySeconds == 1800
MaxReasonableCost == 100
MinReasonableCost == 5
MaxReasonableDuration == 120
PickupWindowMinutes == 60
UrgentQuickMinutes == 10
UrgentOkMinutes == 20
DefaultMaxQuotes == 5
WeightTolerance == 1
NoTime == -1
NoRating == -1

\* Minutes the clock advances in one step.
ClockStep == 6 * 5

Max(a, b) == IF a >= b THEN a ELSE b
Min(a, b) == IF a <= b THEN a ELSE b
Abs(a) == IF a >= 0 THEN a ELSE 0 - a

\* The score 1.0.  48 * 95 makes every component score an integer: a dollar
\* of cost is 48, a minute of pickup delay 76, a minute of duration 38, a
\* half star 456, five hundredths of confidence 228.
One == 48 * 95

ServiceTypes == {"rideshare", "delivery", "courier", "freight", "gig_work"}
Priorities == {"low", "normal", "high", "urgent"}
JobStatuses == {"pending", "assigned", "in_progress", "completed", "cancelled", "failed"}
WeightKeys == {"cost", "time", "reliability", "quality"}

\* ---------------------------------------------------------- providers
\* kind "mock": MockLocalAdapter, whose coroutines never suspend.
\* kind "uber": UberAdapter, every call an HTTP request through the base
\*              class's client, every fault of get_quote mapped to None.
\* kind "partner": any other ProviderAdapter subclass: calls go through the
\*              inherited client and faults propagate to the caller.
\* "regional" is such a subclass that declares coverage of one city only.
ProviderTable ==
    [p \in {"local_quickgig", "local_cityrunners", "uber", "partner", "regional"} |->
        CASE p = "uber" ->
                [kind |-> "uber", services |-> {"rideshare", "delivery"},
                 coverage |-> {"global"}]
          [] p = "partner" ->
                [kind |-> "partner", services |-> {"rideshare", "delivery"},
                 coverage |-> {"global"}]
          [] p = "regional" ->
                [kind |-> "partner", services |-> {"rideshare", "delivery"},
                 coverage |-> {"city"}]
          [] OTHER ->
                [kind |-> "mock", services |-> {"delivery", "courier", "gig_work"},
                 coverage |-> {"local", "city"}]]

Kind(p) == ProviderTable[p].kind

\* The provider lists the gateway is constructed with.
RouterProviders == <<"local_quickgig", "local_cityrunners", "uber", "partner">>
GatewayProviders == <<"local_quickgig", "uber">>
CoverageProviders == <<"local_quickgig", "regional", "uber">>

\* The mock adapter's workers: rating in half stars.
MockWorkerIds == {0}
MockWorkerRating(w) == 9

\* ----------------------------------------------------------- requests
\* distance: the straight-line kilometres the adapters derive from the
\* two locations (2 km and 30 km give whole-dollar mock prices and
\* whole-tick durations).
RouterRequests ==
    [service_type : {"delivery", "rideshare", "freight"},
     priority : {"normal", "urgent"},
     requested_pickup_time : {NoTime, MaxTicks * ClockStep},
     distance : {2}]
GatewayRequests ==
    [service_type : {"delivery"},
     priority : {"normal"},
     requested_pickup_time : {0},
     distance : {2}]

\* ------------------------------------------------------------ scoring
DefaultWeights ==
    [k \in WeightKeys |->
        CASE k = "cost" -> 30 [] k = "time" -> 40
          [] k = "reliability" -> 20 [] OTHER -> 10]

\* A linear cost score without the floor of 0.1 between the two limits.
CostScoreUnfloored(cost) ==
    IF cost <= MinReasonableCost THEN One
    ELSE IF cost >= MaxReasonableCost THEN One \div 10
    ELSE One - ((cost - MinReasonableCost) * One)
                  \div (MaxReasonableCost - MinReasonableCost)

\* RouteOptimizer._normalize_cost_score
NormalizeCostScore(cost) ==
    IF cost <= MinReasonableCost THEN One
    ELSE IF cost >= MaxReasonableCost THEN One \div 10
    ELSE Max(One \div 10,
             One - ((cost - MinReasonableCost) * One)
                       \div (MaxReasonableCost - MinReasonableCost))

\* RouteOptimizer._normalize_time_score; clock is utcnow().
NormalizeTimeScore(pickup_time, delivery_time, requested_pickup, clock) ==
    LET pickup_delay_minutes == (pickup_time - clock)
        total_duration_minutes == (delivery_time - pickup_time)
        pickup_score ==
            IF requested_pickup # NoTime
            THEN Max(0, One - ((Abs(pickup_time - requested_pickup)) * One)
                                  \div PickupWindowMinutes)
            ELSE Max(One \div 10,
                     One - (pickup_delay_minutes * One) \div PickupWindowMinutes)
        duration_score ==
            Max(One \div 10,
                One - (total_duration_minutes * One) \div MaxReasonableDuration)
    IN (pickup_score + duration_score) \div 2

\* RouteOptimizer._calculate_quality_score: a missing worker, a missing
\* rating and a rating of 0 are all falsy.
CalculateQualityScore(quote) ==
    IF quote.worker_rating # NoRating /\ quote.worker_rating # 0
    THEN (quote.worker_rating * One) \div 10
    ELSE (7 * One) \div 10

\* RouteOptimizer._get_priority_adjustment, in hundredths.
GetPriorityAdjustment(priority, quote, clock) ==
    IF priority = "urgent"
    THEN LET pickup_delay == (quote.estimated_pickup_time - clock)
         IN IF pickup_delay <= UrgentQuickMinutes THEN 130
            ELSE IF pickup_delay <= UrgentOkMinutes THEN 110
            ELSE 70
    ELSE IF priority = "high"
    THEN 100 + (quote.confidence_score - 50) \div 5
    ELSE 100

\* RouteOptimizer._calculate_quote_score, scaled by One * 100 * 100.
CalculateQuoteScore(quote, request, w, clock) ==
    (  w["cost"] * NormalizeCostScore(quote.estimated_cost)
     + w["time"] * NormalizeTimeScore(quote.estimated_pickup_time,
                                      quote.estimated_delivery_time,
                                      request.requested_pickup_time, clock)
     + w["reliability"] * ((quote.confidence_score * One) \div 100)
     + w["quality"] * CalculateQualityScore(quote))
    * GetPriorityAdjustment(request.priority, quote, clock)

\* list.sort(key=score, reverse=True): stable, so equal scores keep the
\* order of the input.  An element lands behind every element that scores
\* higher and every earlier element that scores the same.
SortTiesReversed(scored) ==
    LET place == [i \in DOMAIN scored |->
                    1 + Cardinality({j \in DOMAIN scored :
                                       \/ scored[j].score > scored[i].score
                                       \/ /\ scored[j].score = scored[i].score
                                          /\ j > i})]
    IN [k \in DOMAIN scored |-> scored[CHOOSE i \in DOMAIN scored : place[i] = k]]

SortByScore(scored) ==
    LET place == [i \in DOMAIN scored |->
                    1 + Cardinality({j \in DOMAIN scored :
                                       \/ scored[j].score > scored[i].score
                                       \/ /\ scored[j].score = scored[i].score
                                          /\ j < i})]
    IN [k \in DOMAIN scored |-> scored[CHOOSE i \in DOMAIN scored : place[i] = k]]

\* scored_quotes[:max_quotes]
TopQuotes(sorted, max_quotes) == SubSeq(sorted, 1, Min(Len(sorted), max_quotes))


\* -------------------------------------------------------------- state
VARIABLES
    now,            \* datetime.utcnow(), in minutes
    providers,      \* the provider list the gateway was constructed with
    request_pool,   \* the requests callers may send
    uber_prices,    \* the amounts Uber's API may quote
    weights,        \* RouteOptimizer.weights
    active_quotes,  \* TesseractsGateway.active_quotes: quote id -> Quote
    active_jobs,    \* TesseractsGateway.active_jobs: job id -> Job
    mock_workers,   \* MockLocalAdapter.mock_workers: provider -> worker -> is_available
    rm,             \* the request_movement call in flight
    acc,            \* the accept_quote calls in flight, by caller
    n_requests,     \* request_movement calls started so far
    n_jobs,         \* jobs the providers created so far
    swept,          \* history: quote ids cleanup_expired_quotes removed
    consumed,       \* history: quote ids a returned accept_quote consumed
    last,           \* history: how the accept_quote call that ended last ended
    wcall,          \* history: the last update_weights call
    jlast,          \* history: the job operation that ended last
    hc,             \* the get_provider_health_status call in flight
    aw,             \* the get_available_workers call in flight
    sc,             \* the get_optimal_quotes runs on one set of provider answers
    an,             \* the get_analytics call in flight
    alast,          \* history: how the API let the last movement request in
    cleanup_task,   \* where cleanup_quotes_task stands in its loop
    ws              \* ConnectionManager and the broadcast in flight

vars == <<now, providers, request_pool, uber_prices, weights, active_quotes, active_jobs,
          mock_workers, rm, acc, n_requests, n_jobs, swept, consumed, last, wcall,
          jlast, hc, aw, sc, an, alast, cleanup_task, ws>>

\* The calls the quote and job operations never touch.
sideVars == <<hc, aw, sc, an, alast, cleanup_task, ws>>

gatewayVars == <<active_quotes, active_jobs, mock_workers, acc, n_jobs, swept, consumed, last,
                 jlast>>

NoneId == <<>>
IdleCall == [pc |-> "idle"]
NoWeightCall == [outcome |-> "none"]
NoAccept == [result |-> [exc |-> ""]]
NoJobCall == [op |-> "none"]
NoRouteCall == [credential |-> "none"]

SeqToSet(s) == {s[i] : i \in 1..Len(s)}

\* dict[key] = value
Put(d, key, value) == [k \in DOMAIN d \cup {key} |-> IF k = key THEN value ELSE d[k]]
\* del dict[key], for a key set
Drop(d, keys) == [k \in DOMAIN d \ keys |-> d[k]]

\* ----------------------------------------------------- provider quotes
PriorityMultiplier10(priority) ==
    CASE priority = "low" -> 8 [] priority = "normal" -> 10
      [] priority = "high" -> 13 [] OTHER -> 18

\* expires_at=datetime.utcnow() + timedelta(minutes=ttl), taken while the
\* adapter builds the Quote.
ExpiryAtIssue(clock, ttl) == clock
QuoteExpiry(clock, ttl) == clock + ttl

\* MockLocalAdapter.get_quote; worker is the random.choice among the
\* available workers, or NoRating's None when there is none.
MockGetQuote(p, request, clock, rating, qid) ==
    LET estimated_cost ==
            ((50 + 25 * request.distance) * PriorityMultiplier10(request.priority)) \div 100
        duration_minutes == Max(request.distance * 3, 10)
        pickup_delay == IF request.priority = "urgent"
                        THEN MockPickupDelayUrgent ELSE MockPickupDelay
        pickup_time == IF request.requested_pickup_time # NoTime
                       THEN request.requested_pickup_time
                       ELSE clock + pickup_delay
    IN [provider_id |-> p,
        service_type |-> request.service_type,
        estimated_cost |-> estimated_cost,
        estimated_pickup_time |-> pickup_time,
        estimated_delivery_time |-> pickup_time + duration_minutes,
        estimated_duration_minutes |-> duration_minutes,
        worker_rating |-> rating,
        issued_at |-> clock,
        expires_at |-> QuoteExpiry(clock, MockQuoteTtl),
        quote_id |-> qid,
        confidence_score |-> MockConfidence]

\* What Uber's API may answer to a price request.
UberQuoteReplies ==
    [status_code : {200, 500}, has_prices : BOOLEAN,
     amount : uber_prices]

\* UberAdapter.get_quote after the HTTP response arrived.  A rideshare
\* answer without prices leaves estimated_cost unbound: the NameError is
\* caught and None returned; any status but 200 falls off the end (None).
UberGetQuote(request, reply, clock, qid) ==
    IF reply.status_code # 200 THEN [tag |-> "none"]
    ELSE IF request.service_type = "rideshare" /\ ~reply.has_prices
    THEN [tag |-> "none"]
    ELSE LET duration == IF request.service_type = "rideshare"
                         THEN UberRideSeconds ELSE UberDeliverySeconds
             pickup_time == IF request.requested_pickup_time # NoTime
                            THEN request.requested_pickup_time
                            ELSE clock + UberPickupDelay
         IN [tag |-> "quote",
             quote |->
               [provider_id |-> "uber",
                service_type |-> request.service_type,
                estimated_cost |-> reply.amount,
                estimated_pickup_time |-> pickup_time,
                estimated_delivery_time |-> pickup_time + duration \div 60,
                estimated_duration_minutes |-> duration \div 60,
                worker_rating |-> NoRating,
                issued_at |-> clock,
                expires_at |-> QuoteExpiry(clock, UberQuoteTtl),
                quote_id |-> qid,
                confidence_score |-> UberConfidence]]

\* What another ProviderAdapter's get_quote may do once its backend answered:
\* return a Quote, return None, or raise.
PartnerGetQuote(p, request, reply, clock, qid) ==
    IF reply = "none" THEN [tag |-> "none"]
    ELSE IF reply = "raise" THEN [tag |-> "raised"]
    ELSE [tag |-> "quote",
          quote |->
            [provider_id |-> p,
             service_type |-> request.service_type,
             estimated_cost |-> 8,
             estimated_pickup_time |-> clock + 5,
             estimated_delivery_time |-> clock + 15,
             estimated_duration_minutes |-> 10,
             worker_rating |-> IF reply = "rated" THEN 8 ELSE 0,
             issued_at |-> clock,
             expires_at |-> clock + 10,
             quote_id |-> qid,
             confidence_score |-> IF reply = "rated" THEN 100 ELSE 50]]
PartnerQuoteReplies == {"none", "raise", "rated", "plain"}

\* A client built with timeout=None: the request stays pending.
ClientNoTimeout(p) == [tag |-> "pending"]

\* AsyncClient(timeout=30.0): a request the backend never answers raises.
\* UberAdapter.get_quote catches it and returns None; elsewhere it propagates.
ClientTimeout(p) ==
    IF Kind(p) = "uber" THEN [tag |-> "none"] ELSE [tag |-> "raised"]

\* ------------------------------------------------------------ router
\* A router that asks every provider, whatever it declares.
FilterNoProviders(request) == providers

\* A router that looks at the service types only, not at the coverage.
FilterByServiceType(request) ==
    SelectSeq(providers, LAMBDA p : request.service_type \in ProviderTable[p].services)

\* RouteOptimizer._filter_suitable_providers
FilterSuitableProviders(request) ==
    SelectSeq(providers,
              LAMBDA p : /\ request.service_type \in ProviderTable[p].services
                         /\ ({"global", "local"} \cap ProviderTable[p].coverage) # {})

\* RouteOptimizer._get_provider_quote: the try/except around get_quote.
GetProviderQuote(outcome) ==
    IF outcome.tag = "raised" THEN [tag |-> "none"] ELSE outcome

\* A gather that gives up at the first result that is not a Quote.
RECURSIVE ValidQuotesUntilFailure(_)
ValidQuotesUntilFailure(results) ==
    IF results = <<>> \/ Head(results).tag # "quote" THEN <<>>
    ELSE <<Head(results).quote>> \o ValidQuotesUntilFailure(Tail(results))

\* valid_quotes: the results that are Quote objects, in gather's order.
RECURSIVE ValidQuotes(_)
ValidQuotes(results) ==
    IF results = <<>> THEN <<>>
    ELSE IF Head(results).tag = "quote"
         THEN <<Head(results).quote>> \o ValidQuotes(Tail(results))
         ELSE ValidQuotes(Tail(results))

\* scored_quotes: each valid quote with its final score.
ScoreQuotes(valid, request, w, clock) ==
    [i \in DOMAIN valid |->
        [quote |-> valid[i],
         score |-> CalculateQuoteScore(valid[i], request, w, clock)]]

\* [quote for quote, score in top_quotes]
QuotesOf(scored) == [i \in DOMAIN scored |-> scored[i].quote]

\* A request_movement that returns its quotes without caching them.
StoreNoQuotes(cache, quotes) == cache

\* for quote in quotes: self.active_quotes[quote.quote_id] = quote
StoreQuotes(cache, quotes) ==
    LET ids == {quotes[i].quote_id : i \in DOMAIN quotes}
        written(id) == CHOOSE i \in DOMAIN quotes :
                          /\ quotes[i].quote_id = id
                          /\ \A j \in DOMAIN quotes : quotes[j].quote_id = id => j <= i
    IN [id \in DOMAIN cache \cup ids |->
           IF id \in ids THEN quotes[written(id)] ELSE cache[id]]

\* TesseractsGateway.request_movement up to the await on the router: the
\* filter, and one get_quote task per suitable provider.  faults and
\* ranked_at are history: what each provider did, and when gather returned.
RequestMovementBegins(request) ==
    /\ rm.pc = "idle"
    /\ n_requests < MaxRequests
    /\ n_requests' = n_requests + 1
    /\ LET suitable == FilterSuitableProviders(request)
       IN rm' = IF suitable = <<>>
                THEN [pc |-> "returned", request |-> request, no |-> n_requests + 1,
                      suitable |-> suitable, results |-> <<>>, faults |-> <<>>,
                      ranked_at |-> now,
                      response |-> [quotes |-> <<>>, recommended_quote_id |-> NoneId]]
                ELSE [pc |-> "gathering", request |-> request, no |-> n_requests + 1,
                      suitable |-> suitable,
                      results |-> [i \in 1..Len(suitable) |-> [tag |-> "pending"]],
                      faults |-> [i \in 1..Len(suitable) |-> "pending"],
                      ranked_at |-> NoTime,
                      response |-> [quotes |-> <<>>, recommended_quote_id |-> NoneId]]
    /\ UNCHANGED <<now, providers, request_pool, uber_prices, weights, wcall>>
    /\ UNCHANGED gatewayVars

\* A request_movement call made on the gateway.
RequestMovementStart(request) ==
    /\ RequestMovementBegins(request)
    /\ UNCHANGED sideVars

\* The credentials a caller may send: none, the key AuthManager registers by
\* default, and a key nobody registered.
RegisteredKeys == {"tesseracts_demo_key_12345"}
Credentials == {"", "invalid_key"} \cup RegisteredKeys

\* security = HTTPBearer() answers 403 when the header or the token is
\* missing; verify_api_key then accepts any token that is not empty.
\* AuthManager is not used by the API.
VerifyApiKey(credential) ==
    IF credential = "" THEN 403 ELSE 200

\* The request_movement route of src/src/api/main.py: the dependency on
\* verify_api_key, then the gateway's request_movement.
RequestMovementRoute(credential, request) ==
    \E status_code \in {VerifyApiKey(credential)} :
       /\ alast' = [credential |-> credential, status_code |-> status_code,
                    reached |-> status_code = 200]
       /\ IF status_code = 200
          THEN RequestMovementBegins(request)
          ELSE /\ n_requests < MaxRequests
               /\ UNCHANGED <<now, providers, request_pool, uber_prices, weights, wcall,
                              rm, n_requests>>
               /\ UNCHANGED gatewayVars
       /\ UNCHANGED <<hc, aw, sc, an, cleanup_task, ws>>

Settle(i, outcome, fault) ==
    /\ rm' = [rm EXCEPT !.results[i] = GetProviderQuote(outcome),
                        !.faults[i] = fault]
    /\ UNCHANGED <<now, providers, request_pool, uber_prices, weights, n_requests, wcall>>
    /\ UNCHANGED <<gatewayVars, sideVars>>

FaultOf(outcome) == IF outcome.tag = "quote" THEN "ok" ELSE outcome.tag

\* A mock provider's get_quote task runs: it never suspends.
MockQuoteReturns(i) ==
    /\ rm.pc = "gathering"
    /\ i \in DOMAIN rm.results
    /\ rm.results[i].tag = "pending"
    /\ Kind(rm.suitable[i]) = "mock"
    /\ LET p == rm.suitable[i]
           available == {w \in MockWorkerIds : mock_workers[p][w]}
       IN \E rating \in IF available = {} THEN {NoRating}
                        ELSE {MockWorkerRating(w) : w \in available} :
             Settle(i, [tag |-> "quote",
                        quote |-> MockGetQuote(p, rm.request, now, rating, <<p, rm.no>>)],
                    "ok")

\* The backend of an HTTP provider answers the pending get_quote.
HttpQuoteResponds(i) ==
    /\ rm.pc = "gathering"
    /\ i \in DOMAIN rm.results
    /\ rm.results[i].tag = "pending"
    /\ Kind(rm.suitable[i]) \in {"uber", "partner"}
    /\ LET p == rm.suitable[i]
       IN \E reply \in IF Kind(p) = "uber" THEN UberQuoteReplies ELSE PartnerQuoteReplies :
            LET out == IF Kind(p) = "uber"
                       THEN UberGetQuote(rm.request, reply, now, <<p, rm.no>>)
                       ELSE PartnerGetQuote(p, rm.request, reply, now, <<p, rm.no>>)
            IN Settle(i, out, FaultOf(out))

\* The backend never answers: the client's timeout ends the request.
HttpQuoteTimesOut(i) ==
    /\ rm.pc = "gathering"
    /\ i \in DOMAIN rm.results
    /\ rm.results[i].tag = "pending"
    /\ Kind(rm.suitable[i]) \in {"uber", "partner"}
    /\ Settle(i, ClientTimeout(rm.suitable[i]), "timeout")

\* results = await asyncio.gather(*tasks, return_exceptions=True): the call
\* goes on when every task has returned or raised, not at the first one.
FirstSettled == \E i \in DOMAIN rm.results : rm.results[i].tag # "pending"
AllSettled == \A i \in DOMAIN rm.results : rm.results[i].tag # "pending"

\* gather returned: RouteOptimizer.get_optimal_quotes scores, sorts and cuts
\* the valid quotes; request_movement stores them and builds the response.
RequestMovementFinish ==
    /\ rm.pc = "gathering"
    /\ AllSettled
    /\ \E valid \in {ValidQuotes(rm.results)} :
       \E scored \in {ScoreQuotes(valid, rm.request, weights, now)} :
       \E sorted \in {SortByScore(scored)} :
       \E quotes \in {QuotesOf(TopQuotes(sorted, DefaultMaxQuotes))} :
          /\ active_quotes' = StoreQuotes(active_quotes, quotes)
          /\ rm' = [rm EXCEPT !.pc = "returned",
                              !.ranked_at = now,
                              !.response =
                                 [quotes |-> quotes,
                                  recommended_quote_id |->
                                     IF quotes # <<>> THEN quotes[1].quote_id ELSE NoneId]]
    /\ UNCHANGED <<sideVars, now, providers, request_pool, uber_prices, weights, n_requests, wcall,
                   active_jobs, mock_workers, acc, n_jobs, swept, consumed, last, jlast>>

\* The caller has the response; the next request may start.
RequestMovementReturn ==
    /\ rm.pc = "returned"
    /\ rm' = IdleCall
    /\ UNCHANGED <<now, providers, request_pool, uber_prices, weights, n_requests, wcall>>
    /\ UNCHANGED <<gatewayVars, sideVars>>

\* Time passes.
Tick ==
    /\ now < MaxTicks * ClockStep
    /\ now' = now + ClockStep
    /\ UNCHANGED <<providers, request_pool, uber_prices, weights, rm, n_requests, wcall>>
    /\ UNCHANGED <<gatewayVars, sideVars>>

\* ------------------------------------------------------- accept_quote
\* The errors accept_quote raises and the values it may end with.
NotFoundError == [exc |-> "ValueError", message |-> "Quote not found or expired"]
ExpiredError == [exc |-> "ValueError", message |-> "Quote has expired"]
ProviderUnavailableError == [exc |-> "ValueError", message |-> "Provider not available"]
QuoteKeyError == [exc |-> "KeyError", message |-> "quote_id"]
CreateJobError == [exc |-> "Exception", message |-> "Error creating job"]
Returned(job_id) == [exc |-> "none", job_id |-> job_id]

\* Quote ids a caller may name: every id a provider could have issued.
CallerQuoteIds == {<<p, n>> : p \in SeqToSet(providers), n \in 1..n_requests}

NoWorker == 0 - 1
\* The job id UberAdapter.create_job builds when the answer carries neither
\* request_id nor delivery_id: "uber_None".
UberNoneJobId == <<"uber", 0>>

\* Job built by create_job.  quote_id and job_no are history: the quote it
\* was made for and the create_job call that built the object.
NewJob(id, p, status, worker, request, quote_id, job_no) ==
    [id |-> id, status |-> status, provider_id |-> p, job_no |-> job_no,
     service_type |-> request.service_type,
     requested_pickup_time |-> request.requested_pickup_time,
     actual_pickup_time |-> NoTime,
     assigned_worker |-> worker,
     quote_id |-> quote_id]

\* An accept_quote without the expiry check.
QuoteNeverExpired(quote, clock) == FALSE

\* if datetime.utcnow() > quote.expires_at
QuoteExpired(quote, clock) == clock > quote.expires_at

\* via names the caller of TesseractsGateway.accept_quote: "movement" for the
\* accept_quote route of src/src/api/main.py, "order" for
\* OrderService.accept_delivery_and_book.
\* Whether job_created is broadcast: the accept_quote route does it once the
\* gateway returned the job; accept_delivery_and_book and its route have no
\* broadcast.
AcceptBroadcasts(via, result) == via = "movement" /\ result.exc = "none"

\* An accept_quote call ends: what the caller gets is recorded in last.
Ends(call, result, registered) ==
    last' = [quote_id |-> call.quote_id, late |-> call.late,
             was_cached |-> call.was_cached, was_expired |-> call.was_expired,
             called |-> call.called, registered |-> registered, result |-> result,
             via |-> call.via, broadcast |-> AcceptBroadcasts(call.via, result)]

\* An accept_quote that registers the job and leaves the quote cached.
RegisterAndKeep(call, job) ==
    /\ active_jobs' = Put(active_jobs, job.id, job)
    /\ consumed' = consumed \cup {call.quote_id}
    /\ UNCHANGED active_quotes
    /\ Ends(call, Returned(job.id), job.id)

\* An accept_quote that returns the job without registering it.
ConsumeWithoutRegistering(call, job) ==
    /\ UNCHANGED active_jobs
    /\ active_quotes' = Drop(active_quotes, {call.quote_id})
    /\ consumed' = consumed \cup {call.quote_id}
    /\ Ends(call, Returned(job.id), job.id)

\* accept_quote from "Store job for tracking" to its end:
\* active_jobs[job.id] = job, then del active_quotes[quote_id].
RegisterAndConsume(call, job) ==
    /\ active_jobs' = Put(active_jobs, job.id, job)
    /\ IF call.quote_id \in DOMAIN active_quotes
       THEN /\ active_quotes' = Drop(active_quotes, {call.quote_id})
            /\ consumed' = consumed \cup {call.quote_id}
            /\ Ends(call, Returned(job.id), job.id)
       ELSE /\ UNCHANGED <<active_quotes, consumed>>
            /\ Ends(call, QuoteKeyError, job.id)

\* MockLocalAdapter.create_job: a random available worker, marked unavailable.
MockCreateJob(call) ==
    LET p == call.provider_id
        available == {w \in MockWorkerIds : mock_workers[p][w]}
        job_id == <<p, call.job_no>>
    IN IF available = {}
       THEN /\ UNCHANGED mock_workers
            /\ RegisterAndConsume(call,
                   NewJob(job_id, p, "pending", NoWorker, call.request, call.quote_id,
                          call.job_no))
       ELSE \E w \in available :
            /\ mock_workers' = [mock_workers EXCEPT ![p][w] = FALSE]
            /\ RegisterAndConsume(call,
                   NewJob(job_id, p, "assigned", w, call.request, call.quote_id,
                          call.job_no))

\* accept_quote up to the await on provider.create_job.  With a mock
\* provider the await never suspends and the call runs to its end.
\* Callers are interchangeable: a new call takes the lowest idle slot.
\* late, was_cached and was_expired are history: what held when the call
\* was made.
AcceptQuoteVia(t, quote_id, request, via) ==
    /\ acc[t].pc = "idle"
    /\ \A u \in 1..(t - 1) : acc[u].pc # "idle"
    /\ LET call == [pc |-> "creating", quote_id |-> quote_id, request |-> request,
                    provider_id |-> "", job_no |-> 0, called |-> FALSE, via |-> via,
                    late |-> quote_id \in consumed,
                    was_cached |-> quote_id \in DOMAIN active_quotes,
                    was_expired |-> /\ quote_id \in DOMAIN active_quotes
                                    /\ active_quotes[quote_id].expires_at < now]
           fails(error) ==
               /\ Ends(call, error, NoneId)
               /\ UNCHANGED <<acc, active_quotes, active_jobs, mock_workers, n_jobs, consumed>>
       IN IF quote_id \notin DOMAIN active_quotes
          THEN fails(NotFoundError)
          ELSE IF QuoteExpired(active_quotes[quote_id], now)
          THEN fails(ExpiredError)
          ELSE IF active_quotes[quote_id].provider_id \notin SeqToSet(providers)
          THEN fails(ProviderUnavailableError)
          ELSE LET calling == [call EXCEPT !.called = TRUE,
                                           !.job_no = n_jobs + 1,
                                           !.provider_id = active_quotes[quote_id].provider_id]
               IN /\ n_jobs < MaxJobs
                  /\ n_jobs' = n_jobs + 1
                  /\ IF Kind(calling.provider_id) = "mock"
                     THEN /\ MockCreateJob(calling)
                          /\ UNCHANGED acc
                     ELSE /\ acc' = [acc EXCEPT ![t] = calling]
                          /\ UNCHANGED <<active_quotes, active_jobs, mock_workers,
                                         consumed, last>>
    /\ UNCHANGED <<sideVars, now, providers, request_pool, uber_prices, weights, rm, n_requests, swept,
                   wcall, jlast>>

\* accept_quote of src/src/api/main.py.
AcceptQuoteStart(t, quote_id, request) ==
    AcceptQuoteVia(t, quote_id, request, "movement")

\* The request accept_delivery_and_book rebuilds from the order: a delivery
\* with no priority and no requested pickup time given.
OrderRequest ==
    [service_type |-> "delivery", priority |-> "normal",
     requested_pickup_time |-> NoTime, distance |-> 2]

\* OrderService.accept_delivery_and_book for an order the repository holds:
\* the gateway's accept_quote on the rebuilt request.
AcceptDeliveryAndBook(t, quote_id) ==
    AcceptQuoteVia(t, quote_id, OrderRequest, "order")

\* The provider answers create_job with a Job.  UberAdapter builds the job
\* id from the answer's request_id or delivery_id, which may both be absent.
CreateJobReturns(t) ==
    /\ acc[t].pc = "creating"
    /\ LET p == acc[t].provider_id IN
         \E job_id \in {<<p, acc[t].job_no>>} \cup
                       (IF Kind(p) = "uber" THEN {UberNoneJobId} ELSE {}) :
            RegisterAndConsume(acc[t],
                NewJob(job_id, p, "assigned", NoWorker, acc[t].request, acc[t].quote_id,
                       acc[t].job_no))
    /\ acc' = [acc EXCEPT ![t] = IdleCall]
    /\ UNCHANGED <<sideVars, now, providers, request_pool, uber_prices, weights, rm, n_requests, swept,
                   wcall, jlast,
                   mock_workers, n_jobs>>

\* create_job raises: a status other than 200/201, a transport fault or the
\* client's timeout.  accept_quote lets the exception through.
CreateJobRaises(t) ==
    /\ acc[t].pc = "creating"
    /\ Ends(acc[t], CreateJobError, NoneId)
    /\ acc' = [acc EXCEPT ![t] = IdleCall]
    /\ UNCHANGED <<sideVars, now, providers, request_pool, uber_prices, weights, rm, n_requests, swept,
                   wcall, jlast,
                   active_quotes, active_jobs, mock_workers, n_jobs, consumed>>

\* ------------------------------------------------------------- jobs
\* MockLocalAdapter.get_job_status: the job object is the one the gateway
\* registered, so the progression it simulates is seen by the gateway.
MockJobStatus(job, clock) ==
    IF job.status = "assigned"
    THEN IF job.requested_pickup_time # NoTime /\ clock >= job.requested_pickup_time
         THEN [job EXCEPT !.status = "in_progress", !.actual_pickup_time = clock]
         ELSE job
    ELSE IF job.status = "in_progress"
    THEN IF job.actual_pickup_time # NoTime
            /\ clock >= job.actual_pickup_time + MockJobMinutes
         THEN [job EXCEPT !.status = "completed"]
         ELSE job
    ELSE job

\* The worker a mock job frees when it completes or is cancelled.
FreeWorker(workers, job) ==
    IF job.assigned_worker # NoWorker
    THEN [workers EXCEPT ![job.provider_id][job.assigned_worker] = TRUE]
    ELSE workers

\* The statuses UberAdapter.get_job_status can report: status_mapping's
\* values, pending for a status it does not know.
UberStatuses == {"pending", "assigned", "in_progress", "completed", "cancelled"}

\* What a caller of the job operations gets: the errors raised and the
\* values returned.
JobNotFoundError == [exc |-> "ValueError", message |-> "Job not found"]
JobStatusError == [exc |-> "Exception", message |-> "Error getting job status"]
JobUpdate(status) == [exc |-> "none", status |-> status]
CancelResult(success) == [exc |-> "none", success |-> success]
TrackResult == [exc |-> "none"]

\* Job ids a caller may name: the registered ones and one that never was.
UnknownJobId == <<"unknown", 0>>
CallerJobIds == DOMAIN active_jobs \cup {UnknownJobId}
NoJob == [id |-> NoneId]

\* Whether job_cancelled is broadcast: the cancel_job route does it when the
\* gateway returned True.
CancelBroadcasts(op, result) == op = "cancel_job" /\ result = CancelResult(TRUE)

\* A job operation ends: jlast records the call, whether the id was
\* registered, whether the provider was called, the registry entry before
\* and after, and what the caller got.
JobCallEnds(op, job_id, called, before, after, result) ==
    jlast' = [op |-> op, job_id |-> job_id, known |-> before # NoJob,
              called |-> called, before |-> before, after |-> after,
              result |-> result, broadcast |-> CancelBroadcasts(op, result)]

\* if job_id not in self.active_jobs: raise ValueError
JobUnknown(op, job_id) ==
    /\ job_id \notin DOMAIN active_jobs
    /\ JobCallEnds(op, job_id, FALSE, NoJob, NoJob, JobNotFoundError)
    /\ UNCHANGED <<active_jobs, mock_workers>>

\* What UberAdapter.get_job_status may end with: a status for a 200
\* answer, an exception for anything else.
UberStatusReplies == {JobUpdate(status) : status \in UberStatuses} \cup {JobStatusError}

\* A gateway that returns the provider's answer and leaves its entry alone.
MirrorNothing(job, reply) == job

\* job.status = job_update.status, reached only when the provider's call
\* returned.
MirrorStatus(job, reply) ==
    IF reply.exc = "none" THEN [job EXCEPT !.status = reply.status] ELSE job

\* TesseractsGateway.get_job_status: job.status = job_update.status, unless
\* the provider's call raised.
GetJobStatus(job_id) ==
    /\ \/ JobUnknown("get_job_status", job_id)
       \/ /\ job_id \in DOMAIN active_jobs
          /\ LET job == active_jobs[job_id] IN
               IF Kind(job.provider_id) = "mock"
               THEN LET polled == MockJobStatus(job, now) IN
                    /\ active_jobs' = [active_jobs EXCEPT ![job_id] =
                                           MirrorStatus(polled, JobUpdate(polled.status))]
                    /\ mock_workers' =
                          IF polled.status = "completed" /\ job.status # "completed"
                          THEN FreeWorker(mock_workers, job) ELSE mock_workers
                    /\ JobCallEnds("get_job_status", job_id, TRUE, job, polled,
                                   JobUpdate(polled.status))
               ELSE /\ \E reply \in UberStatusReplies :
                         LET after == MirrorStatus(job, reply)
                         IN /\ active_jobs' = [active_jobs EXCEPT ![job_id] = after]
                            /\ JobCallEnds("get_job_status", job_id, TRUE, job, after, reply)
                    /\ UNCHANGED mock_workers
    /\ UNCHANGED <<sideVars, now, providers, request_pool, uber_prices, weights, rm, n_requests, swept, wcall,
                   active_quotes, acc, n_jobs, consumed, last>>

\* MockLocalAdapter.cancel_job on a job it holds: the shared job object
\* becomes cancelled and the call returns True.
MockCancelJob(job) == [job EXCEPT !.status = "cancelled"]

\* What provider.cancel_job may return for a registered job.
CancelReplies(job) == IF Kind(job.provider_id) = "mock" THEN {TRUE} ELSE BOOLEAN

\* A gateway that returns the provider's answer and leaves its entry alone.
MarkNothing(job, success) == job

\* if success: job.status = JobStatus.CANCELLED
MarkCancelled(job, success) ==
    IF success THEN [job EXCEPT !.status = "cancelled"] ELSE job

\* TesseractsGateway.cancel_job.  The mock adapter cancels whatever the
\* job's status and returns True; UberAdapter returns whether the backend
\* answered 200 or 204, False on any fault.
CancelJob(job_id) ==
    /\ \/ JobUnknown("cancel_job", job_id)
       \/ /\ job_id \in DOMAIN active_jobs
          /\ LET job == active_jobs[job_id] IN
               \E success \in CancelReplies(job) :
                  LET held == IF Kind(job.provider_id) = "mock"
                              THEN MockCancelJob(job) ELSE job
                      after == MarkCancelled(held, success)
                  IN /\ active_jobs' = [active_jobs EXCEPT ![job_id] = after]
                     /\ mock_workers' = IF Kind(job.provider_id) = "mock"
                                        THEN FreeWorker(mock_workers, job)
                                        ELSE mock_workers
                     /\ JobCallEnds("cancel_job", job_id, TRUE, job, after,
                                    CancelResult(success))
    /\ UNCHANGED <<sideVars, now, providers, request_pool, uber_prices, weights, rm, n_requests, swept, wcall,
                   active_quotes, acc, n_jobs, consumed, last>>

\* TesseractsGateway.track_job.  The mock adapter's track_job runs its
\* get_job_status on the shared job object; UberAdapter only reads its
\* backend.  Both adapters turn a fault into None.
TrackJob(job_id) ==
    /\ \/ JobUnknown("track_job", job_id)
       \/ /\ job_id \in DOMAIN active_jobs
          /\ LET job == active_jobs[job_id]
                 after == IF Kind(job.provider_id) = "mock"
                          THEN MockJobStatus(job, now) ELSE job
             IN /\ active_jobs' = [active_jobs EXCEPT ![job_id] = after]
                /\ mock_workers' =
                      IF after.status = "completed" /\ job.status # "completed"
                      THEN FreeWorker(mock_workers, job) ELSE mock_workers
                /\ JobCallEnds("track_job", job_id, TRUE, job, after, TrackResult)
    /\ UNCHANGED <<sideVars, now, providers, request_pool, uber_prices, weights, rm, n_requests, swept, wcall,
                   active_quotes, acc, n_jobs, consumed, last>>

\* get_job_status, cancel_job and track_job of src/src/api/main.py: what the
\* HTTP caller sees when the gateway's call ended with result.  The route
\* raises HTTPException(400) for a cancel that returned False inside its own
\* try block, where "except Exception" turns it into a 500.
JobRoute(result) ==
    IF result.exc = "ValueError" THEN [status_code |-> 404, detail |-> result.message]
    ELSE IF result.exc # "none" THEN [status_code |-> 500, detail |-> result.message]
    ELSE IF result = CancelResult(FALSE)
    THEN [status_code |-> 500, detail |-> "Failed to cancel job"]
    ELSE [status_code |-> 200, detail |-> ""]

\* accept_quote of src/src/api/main.py: what the HTTP caller sees when the
\* gateway's accept_quote ended with result.
AcceptQuoteRoute(result) ==
    IF result.exc = "none" THEN [status_code |-> 200, detail |-> ""]
    ELSE IF result.exc = "ValueError"
    THEN [status_code |-> 400, detail |-> result.message]
    ELSE [status_code |-> 500, detail |-> result.message]

\* ------------------------------------------------ mock adapter alone
\* The mock adapter called directly.  Its create_job does not look at the
\* quote id, and the Job objects it keeps in its own active_jobs are the ones
\* a gateway would register: active_jobs holds them here.
MockAdapterCreateJob(p, request) ==
    /\ n_jobs < MaxJobs
    /\ n_jobs' = n_jobs + 1
    /\ LET available == {w \in MockWorkerIds : mock_workers[p][w]}
           job_id == <<p, n_jobs + 1>>
       IN IF available = {}
          THEN /\ UNCHANGED mock_workers
               /\ active_jobs' = Put(active_jobs, job_id,
                                     NewJob(job_id, p, "pending", NoWorker, request, NoneId,
                                            n_jobs + 1))
          ELSE \E w \in available :
               /\ mock_workers' = [mock_workers EXCEPT ![p][w] = FALSE]
               /\ active_jobs' = Put(active_jobs, job_id,
                                     NewJob(job_id, p, "assigned", w, request, NoneId,
                                            n_jobs + 1))
    /\ UNCHANGED <<sideVars, now, providers, request_pool, uber_prices, weights, rm, n_requests,
                   swept, wcall, active_quotes, acc, consumed, last, jlast>>

\* MockLocalAdapter.get_job_status on a job the adapter holds.
MockAdapterGetJobStatus(job_id) ==
    /\ job_id \in DOMAIN active_jobs
    /\ LET job == active_jobs[job_id]
           polled == MockJobStatus(job, now)
       IN /\ active_jobs' = [active_jobs EXCEPT ![job_id] = polled]
          /\ mock_workers' =
                IF polled.status = "completed" /\ job.status # "completed"
                THEN FreeWorker(mock_workers, job) ELSE mock_workers
    /\ UNCHANGED <<sideVars, now, providers, request_pool, uber_prices, weights, rm, n_requests,
                   swept, wcall, active_quotes, acc, n_jobs, consumed, last, jlast>>

\* MockLocalAdapter.cancel_job on a job the adapter holds, whatever its
\* status: the job becomes cancelled and its worker available.
MockAdapterCancelJob(job_id) ==
    /\ job_id \in DOMAIN active_jobs
    /\ LET job == active_jobs[job_id]
       IN /\ active_jobs' = [active_jobs EXCEPT ![job_id] = MockCancelJob(job)]
          /\ mock_workers' = FreeWorker(mock_workers, job)
    /\ UNCHANGED <<sideVars, now, providers, request_pool, uber_prices, weights, rm, n_requests,
                   swept, wcall, active_quotes, acc, n_jobs, consumed, last, jlast>>

\* ------------------------------------------------------ quote expiry
\* A sweep that takes every cached quote for expired.
EveryQuote(cache, clock) == DOMAIN cache

\* expired_quotes: the ids whose quote has current_time > quote.expires_at
ExpiredQuotes(cache, clock) == {q \in DOMAIN cache : clock > cache[q].expires_at}

\* TesseractsGateway.cleanup_expired_quotes: no await, one step.
SweepExpiredQuotes ==
    /\ LET expired_quotes == ExpiredQuotes(active_quotes, now)
       IN /\ active_quotes' = Drop(active_quotes, expired_quotes)
          /\ swept' = swept \cup expired_quotes
    /\ UNCHANGED <<now, providers, request_pool, uber_prices, weights, rm, n_requests, wcall,
                   active_jobs, mock_workers, acc, n_jobs, consumed, last, jlast>>

\* A cleanup_expired_quotes call made on the gateway.
CleanupExpiredQuotes ==
    /\ SweepExpiredQuotes
    /\ UNCHANGED sideVars

\* A task that returns after its first sweep.
TaskEnds == "done"

\* while True: after the sweep the task sleeps, and goes round again.
TaskSleeps == "sleeping"

\* cleanup_quotes_task, created at startup: one turn of the loop up to the
\* sleep.  cleanup_expired_quotes has no statement that raises, so the
\* except branch (log, sleep 60 s, go round again) is never taken.
CleanupTaskSweeps ==
    /\ cleanup_task = "sweeping"
    /\ SweepExpiredQuotes
    /\ cleanup_task' = TaskSleeps
    /\ UNCHANGED <<hc, aw, sc, an, alast, ws>>

\* asyncio.sleep(300) is over.
CleanupTaskWakes ==
    /\ cleanup_task = "sleeping"
    /\ cleanup_task' = "sweeping"
    /\ UNCHANGED <<now, providers, request_pool, uber_prices, weights, rm, n_requests, wcall>>
    /\ UNCHANGED <<gatewayVars, hc, aw, sc, an, alast, ws>>

\* ------------------------------------------------------------ weights
\* The dicts a caller may pass to update_weights: any subset of the keys.
WeightValues == {50, 51}
SuppliedWeights == UNION {[keys -> WeightValues] : keys \in SUBSET WeightKeys}

\* sum(new_weights.values())
RECURSIVE SumValues(_)
SumValues(d) ==
    IF DOMAIN d = {} THEN 0
    ELSE LET k == CHOOSE x \in DOMAIN d : TRUE
         IN d[k] + SumValues([x \in DOMAIN d \ {k} |-> d[x]])

\* An update_weights without the sum check.
WeightSumNeverRejected(total) == {FALSE}

\* abs(total - 1.0) > 0.01, as the set of outcomes the float comparison can
\* have: a sum exactly 0.01 off lands on either side, by its addends.
WeightSumRejected(total) ==
    IF Abs(total - 100) > WeightTolerance THEN {TRUE}
    ELSE IF Abs(total - 100) = WeightTolerance THEN {TRUE, FALSE}
    ELSE {FALSE}

\* self.weights.update(new_weights)
MergeWeights(w, new_weights) ==
    [k \in DOMAIN w \cup DOMAIN new_weights |->
        IF k \in DOMAIN new_weights THEN new_weights[k] ELSE w[k]]

\* RouteOptimizer.update_weights.  wcall is history: the call's argument,
\* the weights before it and how it ended.
UpdateWeights(new_weights) ==
    /\ \E rejected \in WeightSumRejected(SumValues(new_weights)) :
          /\ weights' = IF rejected THEN weights ELSE MergeWeights(weights, new_weights)
          /\ wcall' = [supplied |-> new_weights, before |-> weights,
                       outcome |-> IF rejected THEN "ValueError" ELSE "updated"]
    /\ UNCHANGED <<now, providers, request_pool, uber_prices, rm, n_requests>>
    /\ UNCHANGED <<gatewayVars, sideVars>>

\* ------------------------------------------------------------- health
\* What one provider's health_check may end with.
HealthPending == [exc |-> "pending"]
HealthReturned(healthy) == [exc |-> "none", value |-> healthy]
HealthRaised == [exc |-> "Exception"]

\* ProviderAdapter.health_check: whether GET /health answered 200, and False
\* for whatever went wrong, the client's timeout included.  The two adapters
\* inherit it; another subclass may override it and raise.
HealthReplies(p) ==
    {HealthReturned(healthy) : healthy \in BOOLEAN}
       \cup (IF Kind(p) = "partner" THEN {HealthRaised} ELSE {})

\* A router that reports a provider healthy unless it said otherwise.
HealthEntryUnlessFalse(result) ==
    IF result.exc = "none" THEN result.value ELSE TRUE

\* result if isinstance(result, bool) else False
HealthEntry(result) ==
    IF result.exc = "none" THEN result.value ELSE FALSE

\* get_provider_health_status up to the await on gather: one health_check
\* task per provider of the list.
HealthStatusStart ==
    /\ hc.pc = "idle"
    /\ hc' = [pc |-> "gathering",
              results |-> [i \in 1..Len(providers) |-> HealthPending]]
    /\ UNCHANGED <<now, providers, request_pool, uber_prices, weights, rm, n_requests, wcall>>
    /\ UNCHANGED <<gatewayVars, aw, sc, an, alast, cleanup_task, ws>>

\* One health_check task ends; gather(return_exceptions=True) keeps what it
\* returned or raised at the provider's place.
HealthCheckEnds(i) ==
    /\ hc.pc = "gathering"
    /\ hc.results[i] = HealthPending
    /\ \E reply \in HealthReplies(providers[i]) :
          hc' = [hc EXCEPT !.results[i] = reply]
    /\ UNCHANGED <<now, providers, request_pool, uber_prices, weights, rm, n_requests, wcall>>
    /\ UNCHANGED <<gatewayVars, aw, sc, an, alast, cleanup_task, ws>>

\* Every task has ended: the dict built from zip(self.providers,
\* health_results), a later entry replacing an earlier one of the same id.
HealthStatusFinish ==
    /\ hc.pc = "gathering"
    /\ \A i \in 1..Len(providers) : hc.results[i] # HealthPending
    /\ hc' = [pc |-> "returned", results |-> hc.results,
              response |->
                 [p \in SeqToSet(providers) |->
                    LET i == CHOOSE i \in 1..Len(providers) :
                                /\ providers[i] = p
                                /\ \A j \in (i + 1)..Len(providers) : providers[j] # p
                    IN HealthEntry(hc.results[i])]]
    /\ UNCHANGED <<now, providers, request_pool, uber_prices, weights, rm, n_requests, wcall>>
    /\ UNCHANGED <<gatewayVars, aw, sc, an, alast, cleanup_task, ws>>

\* The caller has the dict; the next call may start.
HealthStatusReturn ==
    /\ hc.pc = "returned"
    /\ hc' = IdleCall
    /\ UNCHANGED <<now, providers, request_pool, uber_prices, weights, rm, n_requests, wcall>>
    /\ UNCHANGED <<gatewayVars, aw, sc, an, alast, cleanup_task, ws>>

\* -------------------------------------------------- available workers
\* What one provider's get_available_workers task may end with.
WorkersPending == [tag |-> "pending"]
WorkersList(workers) == [tag |-> "list", workers |-> workers]
WorkersRaised == [tag |-> "raised"]

\* MockLocalAdapter.get_available_workers: the available workers within the
\* radius, in the adapter's order.  near: whether the caller's location is
\* within the radius of the workers.
MockAvailableWorkers(p, near) ==
    IF near
    THEN SelectSeq([w \in 1..Cardinality(MockWorkerIds) |-> <<p, w - 1>>],
                   LAMBDA worker : mock_workers[p][worker[2]])
    ELSE <<>>

\* What a provider's get_available_workers may end with.  UberAdapter turns
\* the drivers of a 200 answer into workers and everything else into [];
\* another subclass may raise.
WorkersReplies(p, near) ==
    IF Kind(p) = "mock" THEN {WorkersList(MockAvailableWorkers(p, near))}
    ELSE {WorkersList(<<>>), WorkersList(<<<<p, 1>>>>)}
            \cup (IF Kind(p) = "partner" THEN {WorkersRaised} ELSE {})

\* for provider in self.providers.values():
\*     if service_type in provider.supported_service_types
SupportingProviders(service_type) ==
    SelectSeq(providers, LAMBDA p : service_type \in ProviderTable[p].services)

\* all_workers: the results that are lists, extended in gather's order.
RECURSIVE AllWorkers(_)
AllWorkers(results) ==
    IF results = <<>> THEN <<>>
    ELSE IF Head(results).tag = "list"
         THEN Head(results).workers \o AllWorkers(Tail(results))
         ELSE AllWorkers(Tail(results))

\* An aggregation that gives nothing when one task raised.
WorkersUnlessFailure(results) ==
    IF \E i \in DOMAIN results : results[i].tag # "list" THEN <<>>
    ELSE AllWorkers(results)

\* The aggregation get_available_workers applies to gather's results.
AggregateWorkers(results) == AllWorkers(results)

\* get_available_workers up to the await on gather; with no supporting
\* provider it returns [] at once.
AvailableWorkersStart(service_type, near) ==
    /\ aw.pc = "idle"
    /\ LET asked == SupportingProviders(service_type) IN
         aw' = [pc |-> IF asked = <<>> THEN "returned" ELSE "gathering",
                service_type |-> service_type, near |-> near, asked |-> asked,
                results |-> [i \in DOMAIN asked |-> WorkersPending],
                response |-> <<>>]
    /\ UNCHANGED <<now, providers, request_pool, uber_prices, weights, rm, n_requests, wcall>>
    /\ UNCHANGED <<gatewayVars, hc, sc, an, alast, cleanup_task, ws>>

\* One get_available_workers task ends; gather(return_exceptions=True)
\* keeps what it returned or raised at the provider's place.
WorkersTaskEnds(i) ==
    /\ aw.pc = "gathering"
    /\ i \in DOMAIN aw.results
    /\ aw.results[i] = WorkersPending
    /\ \E reply \in WorkersReplies(aw.asked[i], aw.near) :
          aw' = [aw EXCEPT !.results[i] = reply]
    /\ UNCHANGED <<now, providers, request_pool, uber_prices, weights, rm, n_requests, wcall>>
    /\ UNCHANGED <<gatewayVars, hc, sc, an, alast, cleanup_task, ws>>

\* Every task has ended: the lists are flattened into the response.
AvailableWorkersFinish ==
    /\ aw.pc = "gathering"
    /\ \A i \in DOMAIN aw.results : aw.results[i] # WorkersPending
    /\ aw' = [aw EXCEPT !.pc = "returned", !.response = AggregateWorkers(aw.results)]
    /\ UNCHANGED <<now, providers, request_pool, uber_prices, weights, rm, n_requests, wcall>>
    /\ UNCHANGED <<gatewayVars, hc, sc, an, alast, cleanup_task, ws>>

\* The caller has the list; the next call may start.
AvailableWorkersReturn ==
    /\ aw.pc = "returned"
    /\ aw' = IdleCall
    /\ UNCHANGED <<now, providers, request_pool, uber_prices, weights, rm, n_requests, wcall>>
    /\ UNCHANGED <<gatewayVars, hc, sc, an, alast, cleanup_task, ws>>

\* ---------------------------------------------------------- analytics
\* status_counts, provider_counts, service_counts: the values a field takes
\* over the registry, each with the number of jobs that have it.
CountBy(jobs, field) ==
    [v \in {jobs[id][field] : id \in DOMAIN jobs} |->
        Cardinality({id \in DOMAIN jobs : jobs[id][field] = v})]

\* get_analytics up to the await on get_provider_health_status: the job
\* counts are taken, and one health_check task per provider is started.
GetAnalyticsStart ==
    /\ an.pc = "idle"
    /\ hc.pc = "idle"
    /\ an' = [pc |-> "health",
              total_jobs |-> Cardinality(DOMAIN active_jobs),
              status_breakdown |-> CountBy(active_jobs, "status"),
              provider_breakdown |-> CountBy(active_jobs, "provider_id"),
              service_breakdown |-> CountBy(active_jobs, "service_type")]
    /\ hc' = [pc |-> "gathering",
              results |-> [i \in 1..Len(providers) |-> HealthPending]]
    /\ UNCHANGED <<now, providers, request_pool, uber_prices, weights, rm, n_requests, wcall>>
    /\ UNCHANGED <<gatewayVars, aw, sc, alast, cleanup_task, ws>>

\* The health status arrived: the dict is built and returned;
\* len(self.active_quotes) is evaluated only now.
GetAnalyticsFinish ==
    /\ an.pc = "health"
    /\ hc.pc = "returned"
    /\ an' = [pc |-> "returned",
              response |->
                 [total_jobs |-> an.total_jobs,
                  status_breakdown |-> an.status_breakdown,
                  provider_breakdown |-> an.provider_breakdown,
                  service_breakdown |-> an.service_breakdown,
                  provider_health |-> hc.response,
                  total_quotes_cached |-> Cardinality(DOMAIN active_quotes)]]
    /\ hc' = IdleCall
    /\ UNCHANGED <<now, providers, request_pool, uber_prices, weights, rm, n_requests, wcall>>
    /\ UNCHANGED <<gatewayVars, aw, sc, alast, cleanup_task, ws>>

\* The caller has the dict; the next call may start.
GetAnalyticsReturn ==
    /\ an.pc = "returned"
    /\ an' = IdleCall
    /\ UNCHANGED <<now, providers, request_pool, uber_prices, weights, rm, n_requests, wcall>>
    /\ UNCHANGED <<gatewayVars, hc, aw, sc, alast, cleanup_task, ws>>

\* ------------------------------------------------------ ranking runs
\* RouteOptimizer.get_optimal_quotes from "Score and rank quotes" on, for the
\* valid quotes of one gather: the scores, in the quotes' order, and the
\* quotes returned.  clock is utcnow() while scoring.
OptimalQuotes(valid, request, w, clock, max_quotes) ==
    LET scored == ScoreQuotes(valid, request, w, clock)
    IN [clock |-> clock,
        scores |-> [i \in DOMAIN scored |-> scored[i].score],
        ranking |-> QuotesOf(TopQuotes(SortByScore(scored), max_quotes))]

\* The requests and the provider answers the runs are made on.  The quotes
\* carry absolute times: pickup 8 or 25 minutes after the first tick of the
\* clock, delivery 30 or 110 minutes later.
ScoringRequests ==
    [service_type : {"delivery"},
     priority : {"normal", "urgent"},
     requested_pickup_time : {NoTime, ClockStep + 68},
     distance : {2}]

ScoringQuote(p, delay, duration, cost) ==
    [provider_id |-> p,
     service_type |-> "delivery",
     estimated_cost |-> cost,
     estimated_pickup_time |-> ClockStep + delay,
     estimated_delivery_time |-> ClockStep + delay + duration,
     estimated_duration_minutes |-> duration,
     worker_rating |-> NoRating,
     issued_at |-> 0,
     expires_at |-> ClockStep + delay,
     quote_id |-> <<p, 1>>,
     confidence_score |-> UberConfidence]

ScoringQuotes(p) ==
    {ScoringQuote(p, delay, duration, cost) :
        delay \in {8, 25}, duration \in {30, 110}, cost \in {5, 100}}

ScoringAnswers ==
    {<<a, b>> : a \in ScoringQuotes("partner"), b \in ScoringQuotes("uber")}

\* The weights update_weights accepts: the defaults and everything on time.
TimeOnlyWeights == [k \in WeightKeys |-> IF k = "time" THEN 100 ELSE 0]
ScoringWeights == {DefaultWeights, TimeOnlyWeights}

\* get_optimal_quotes ranks the answers of one gather.
RankQuotes(request, valid, max_quotes) ==
    /\ sc.pc = "idle"
    /\ sc' = [pc |-> "ranked", request |-> request, valid |-> valid,
              max_quotes |-> max_quotes,
              runs |-> <<OptimalQuotes(valid, request, weights, now, max_quotes)>>]
    /\ UNCHANGED <<now, providers, request_pool, uber_prices, weights, rm, n_requests, wcall>>
    /\ UNCHANGED <<gatewayVars, hc, aw, an, alast, cleanup_task, ws>>

\* A second run on the same request and the same answers, at the time it is
\* made.
RankQuotesAgain ==
    /\ sc.pc = "ranked"
    /\ Len(sc.runs) = 1
    /\ sc' = [sc EXCEPT !.runs =
                 Append(@, OptimalQuotes(sc.valid, sc.request, weights, now,
                                         sc.max_quotes))]
    /\ UNCHANGED <<now, providers, request_pool, uber_prices, weights, rm, n_requests, wcall>>
    /\ UNCHANGED <<gatewayVars, hc, aw, an, alast, cleanup_task, ws>>

\* The runs are over; other answers may be ranked.
RankQuotesReturn ==
    /\ sc.pc = "ranked"
    /\ sc' = IdleCall
    /\ UNCHANGED <<now, providers, request_pool, uber_prices, weights, rm, n_requests, wcall>>
    /\ UNCHANGED <<gatewayVars, hc, aw, an, alast, cleanup_task, ws>>

\* ---------------------------------------------------- score components
\* The costs the cost score is applied to, in whole currency units.
CostValues == 0..MaxCost

\* _normalize_cost_score applied to two costs.
CostScores(a, b) ==
    /\ sc.pc = "idle"
    /\ sc' = [pc |-> "cost", costs |-> <<a, b>>,
              scores |-> <<NormalizeCostScore(a), NormalizeCostScore(b)>>]
    /\ UNCHANGED <<now, providers, request_pool, uber_prices, weights, rm, n_requests, wcall>>
    /\ UNCHANGED <<gatewayVars, hc, aw, an, alast, cleanup_task, ws>>

\* The quotes an adapter may hand to the scorer: pickup before or after the
\* clock, delivery before, at or after the pickup, a worker without rating
\* or rated 0, 3.5 or 5 stars.
ComponentQuotes ==
    {[provider_id |-> "partner",
      service_type |-> "delivery",
      estimated_cost |-> cost,
      estimated_pickup_time |-> pickup,
      estimated_delivery_time |-> pickup + duration,
      estimated_duration_minutes |-> duration,
      worker_rating |-> rating,
      issued_at |-> 0,
      expires_at |-> ClockStep + 10,
      quote_id |-> <<"partner", 1>>,
      confidence_score |-> confidence] :
        cost \in {5, 50}, pickup \in {0 - 15, 8, ClockStep + 10},
        duration \in {0 - 10, 0, 30, 130}, rating \in {NoRating, 0, 7, 10},
        confidence \in {0, UberConfidence, 100}}

\* The four component scores _calculate_quote_score computes for a quote.
ComponentScores(quote, request) ==
    /\ sc.pc = "idle"
    /\ sc' = [pc |-> "components", quote |-> quote, request |-> request, clock |-> now,
              cost |-> NormalizeCostScore(quote.estimated_cost),
              time |-> NormalizeTimeScore(quote.estimated_pickup_time,
                                          quote.estimated_delivery_time,
                                          request.requested_pickup_time, now),
              reliability |-> (quote.confidence_score * One) \div 100,
              quality |-> CalculateQualityScore(quote)]
    /\ UNCHANGED <<now, providers, request_pool, uber_prices, weights, rm, n_requests, wcall>>
    /\ UNCHANGED <<gatewayVars, hc, aw, an, alast, cleanup_task, ws>>

\* The caller has the scores.
ComponentScoresReturn ==
    /\ sc.pc \in {"cost", "components"}
    /\ sc' = IdleCall
    /\ UNCHANGED <<now, providers, request_pool, uber_prices, weights, rm, n_requests, wcall>>
    /\ UNCHANGED <<gatewayVars, hc, aw, an, alast, cleanup_task, ws>>

\* -------------------------------------------------------- multi-stop
\* Locations as <<latitude, longitude>> on a small grid.
Points == {<<0, 0>>, <<1, 0>>, <<3, 0>>, <<0, 2>>}

\* The stop lists a caller may pass: origin first, destination last.
StopLists == UNION {[1..n -> Points] : n \in 1..MaxStops}

\* RouteOptimizer._calculate_distance, squared: the square root and the
\* factor 111 keep the order, which is all min() uses.
CalculateDistance(loc1, loc2) ==
    (loc1[1] - loc2[1]) * (loc1[1] - loc2[1]) + (loc1[2] - loc2[2]) * (loc1[2] - loc2[2])

\* A route that takes the intermediate stops in the order given.
FirstStop(current_location, remaining_stops) == 1

\* min(remaining_stops, key=distance from current_location): the position
\* of the first stop at the least distance.
NearestStop(current_location, remaining_stops) ==
    CHOOSE i \in DOMAIN remaining_stops :
       /\ \A j \in DOMAIN remaining_stops :
             CalculateDistance(current_location, remaining_stops[i])
                <= CalculateDistance(current_location, remaining_stops[j])
       /\ \A j \in 1..(i - 1) :
             CalculateDistance(current_location, remaining_stops[j])
                > CalculateDistance(current_location, remaining_stops[i])

\* remaining_stops.remove(nearest_stop): the first equal element goes.
RemoveAt(seq, i) == SubSeq(seq, 1, i - 1) \o SubSeq(seq, i + 1, Len(seq))

\* The while loop of optimize_multi_stop_route and the final leg.
RECURSIVE RouteLegs(_, _, _)
RouteLegs(current_location, remaining_stops, destination) ==
    IF remaining_stops = <<>> THEN << <<current_location, destination>> >>
    ELSE LET i == NearestStop(current_location, remaining_stops)
             nearest_stop == remaining_stops[i]
         IN << <<current_location, nearest_stop>> >>
               \o RouteLegs(nearest_stop, RemoveAt(remaining_stops, i), destination)

\* RouteOptimizer.optimize_multi_stop_route
OptimizeMultiStopRoute(stops) ==
    IF Len(stops) <= 2 THEN << <<stops[1], stops[Len(stops)]>> >>
    ELSE RouteLegs(stops[1], SubSeq(stops, 2, Len(stops) - 1), stops[Len(stops)])

\* An optimize_multi_stop_route call and its result.
OptimizeRoute(stops) ==
    /\ sc.pc = "idle"
    /\ sc' = [pc |-> "routed", stops |-> stops, legs |-> OptimizeMultiStopRoute(stops)]
    /\ UNCHANGED <<now, providers, request_pool, uber_prices, weights, rm, n_requests, wcall>>
    /\ UNCHANGED <<gatewayVars, hc, aw, an, alast, cleanup_task, ws>>

\* The caller has the legs.
OptimizeRouteReturn ==
    /\ sc.pc = "routed"
    /\ sc' = IdleCall
    /\ UNCHANGED <<now, providers, request_pool, uber_prices, weights, rm, n_requests, wcall>>
    /\ UNCHANGED <<gatewayVars, hc, aw, an, alast, cleanup_task, ws>>

\* ------------------------------------------------------ push channel
\* The websockets that may ever connect.  A websocket connects once; its
\* client may close it at any time.
WebSockets == 1..MaxConnections

\* ConnectionManager as constructed: no connection, no broadcast in flight.
\* opened and closed are the websockets accepted so far and those whose
\* client has closed them; at, conn, delivered, disconnected and present
\* belong to the broadcast in flight.
NoConnections ==
    [active_connections |-> <<>>, opened |-> {}, closed |-> {},
     pc |-> "idle", at |-> 0, conn |-> 0, delivered |-> {}, disconnected |-> <<>>,
     present |-> {}]

\* list.remove(x): the first element equal to x goes.
RemoveFirst(seq, x) ==
    IF \E i \in DOMAIN seq : seq[i] = x
    THEN LET i == CHOOSE k \in DOMAIN seq : seq[k] = x /\ \A j \in 1..(k - 1) : seq[j] # x
         IN SubSeq(seq, 1, i - 1) \o SubSeq(seq, i + 1, Len(seq))
    ELSE seq

\* for conn in disconnected: self.disconnect(conn)
RECURSIVE RemoveAll(_, _)
RemoveAll(seq, gone) ==
    IF gone = <<>> THEN seq ELSE RemoveAll(RemoveFirst(seq, Head(gone)), Tail(gone))

\* The for loop of broadcast takes its next element: the list iterator
\* keeps a position in the live list.  When the list is exhausted the
\* connections that failed are removed and the broadcast is over.
BroadcastAdvances(w) ==
    IF w.at < Len(w.active_connections)
    THEN [w EXCEPT !.pc = "sending", !.at = w.at + 1,
                   !.conn = w.active_connections[w.at + 1]]
    ELSE [w EXCEPT !.pc = "done", !.conn = 0,
                   !.active_connections = RemoveAll(w.active_connections, w.disconnected)]

\* websocket_endpoint: manager.connect accepts the websocket and appends it.
Connect(c) ==
    /\ c \notin ws.opened
    /\ ws' = [ws EXCEPT !.opened = @ \cup {c},
                        !.active_connections = Append(@, c)]
    /\ UNCHANGED <<now, providers, request_pool, uber_prices, weights, rm, n_requests, wcall>>
    /\ UNCHANGED <<gatewayVars, hc, aw, sc, an, alast, cleanup_task>>

\* The client of a websocket closes it.
ClientCloses(c) ==
    /\ c \in ws.opened \ ws.closed
    /\ ws' = [ws EXCEPT !.closed = @ \cup {c}]
    /\ UNCHANGED <<now, providers, request_pool, uber_prices, weights, rm, n_requests, wcall>>
    /\ UNCHANGED <<gatewayVars, hc, aw, sc, an, alast, cleanup_task>>

\* websocket_endpoint: receive_text raises WebSocketDisconnect and the
\* handler calls manager.disconnect.
Disconnect(c) ==
    /\ c \in ws.closed
    /\ \E i \in DOMAIN ws.active_connections : ws.active_connections[i] = c
    /\ ws' = [ws EXCEPT !.active_connections = RemoveFirst(@, c)]
    /\ UNCHANGED <<now, providers, request_pool, uber_prices, weights, rm, n_requests, wcall>>
    /\ UNCHANGED <<gatewayVars, hc, aw, sc, an, alast, cleanup_task>>

\* manager.broadcast(message) up to its first await.
BroadcastStart ==
    /\ ws.pc = "idle"
    /\ ws' = BroadcastAdvances([ws EXCEPT !.at = 0, !.delivered = {}, !.disconnected = <<>>,
                                          !.present = {ws.active_connections[i] :
                                                         i \in DOMAIN ws.active_connections}
                                                      \ ws.closed])
    /\ UNCHANGED <<now, providers, request_pool, uber_prices, weights, rm, n_requests, wcall>>
    /\ UNCHANGED <<gatewayVars, hc, aw, sc, an, alast, cleanup_task>>

\* await connection.send_text(message) ends: it raises when the client has
\* closed the websocket.  The loop then goes on to its next await or ends.
SendTextEnds ==
    /\ ws.pc = "sending"
    /\ ws' = BroadcastAdvances(
                 IF ws.conn \in ws.closed
                 THEN [ws EXCEPT !.disconnected = Append(@, ws.conn)]
                 ELSE [ws EXCEPT !.delivered = @ \cup {ws.conn}])
    /\ UNCHANGED <<now, providers, request_pool, uber_prices, weights, rm, n_requests, wcall>>
    /\ UNCHANGED <<gatewayVars, hc, aw, sc, an, alast, cleanup_task>>

\* The caller of broadcast goes on.
BroadcastReturn ==
    /\ ws.pc = "done"
    /\ ws' = [ws EXCEPT !.pc = "idle", !.at = 0, !.delivered = {}, !.disconnected = <<>>,
                        !.present = {}]
    /\ UNCHANGED <<now, providers, request_pool, uber_prices, weights, rm, n_requests, wcall>>
    /\ UNCHANGED <<gatewayVars, hc, aw, sc, an, alast, cleanup_task>>

\* ------------------------------------------------------ construction
InitCalls ==
    /\ active_quotes = <<>>
    /\ active_jobs = <<>>
    /\ rm = IdleCall
    /\ acc = [t \in 1..MaxAccepts |-> IdleCall]
    /\ swept = {}
    /\ consumed = {}
    /\ last = NoAccept
    /\ wcall = NoWeightCall
    /\ jlast = NoJobCall
    /\ hc = IdleCall
    /\ aw = IdleCall
    /\ sc = IdleCall
    /\ an = IdleCall
    /\ alast = NoRouteCall
    /\ cleanup_task = "sweeping"
    /\ ws = NoConnections

InitCommon ==
    /\ weights = DefaultWeights
    /\ InitCalls

\* The fan-out alone: four providers, one request_movement call left to
\* serve, one tick of the clock left.
InitRouter ==
    /\ InitCommon
    /\ now = (MaxTicks - 1) * ClockStep
    /\ n_requests = MaxRequests - 1
    /\ n_jobs = 0
    /\ providers = RouterProviders
    /\ request_pool = RouterRequests
    /\ uber_prices = {12, 100}
    /\ mock_workers \in [{"local_quickgig", "local_cityrunners"} -> [MockWorkerIds -> BOOLEAN]]

NextRouter ==
    \/ \E request \in request_pool : RequestMovementStart(request)
    \/ \E i \in 1..Len(providers) : MockQuoteReturns(i)
    \/ \E i \in 1..Len(providers) : HttpQuoteResponds(i)
    \/ \E i \in 1..Len(providers) : HttpQuoteTimesOut(i)
    \/ RequestMovementFinish
    \/ RequestMovementReturn
    \/ Tick

SpecRouter == InitRouter /\ [][NextRouter]_vars

\* The fan-out of a router one of whose providers covers neither "global"
\* nor "local".
InitCoverage ==
    /\ InitCommon
    /\ now = (MaxTicks - 1) * ClockStep
    /\ n_requests = MaxRequests - 1
    /\ n_jobs = 0
    /\ providers = CoverageProviders
    /\ request_pool = RouterRequests
    /\ uber_prices = {12, 100}
    /\ mock_workers \in [{"local_quickgig", "local_cityrunners"} -> [MockWorkerIds -> BOOLEAN]]

SpecCoverage == InitCoverage /\ [][NextRouter]_vars

\* The event loop runs every task that is ready, and the HTTP client ends a
\* request after its timeout; nothing obliges a backend to answer.
GatherProgress ==
    \/ \E i \in 1..Len(providers) : MockQuoteReturns(i)
    \/ \E i \in 1..Len(providers) : HttpQuoteTimesOut(i)
    \/ RequestMovementFinish

FairSpecRouter == SpecRouter /\ WF_vars(GatherProgress)

\* The optimizer's configuration alone.
NextWeights == \E new_weights \in SuppliedWeights : UpdateWeights(new_weights)

SpecWeights == InitRouter /\ [][NextWeights]_vars

\* The health fan-out alone, over the four providers.
NextHealth ==
    \/ HealthStatusStart
    \/ \E i \in 1..Len(providers) : HealthCheckEnds(i)
    \/ HealthStatusFinish
    \/ HealthStatusReturn

SpecHealth == InitRouter /\ [][NextHealth]_vars

\* The worker fan-out alone, over the four providers.
NextWorkers ==
    \/ \E service_type \in ServiceTypes, near \in BOOLEAN :
          AvailableWorkersStart(service_type, near)
    \/ \E i \in 1..Len(providers) : WorkersTaskEnds(i)
    \/ AvailableWorkersFinish
    \/ AvailableWorkersReturn

SpecWorkers == InitRouter /\ [][NextWorkers]_vars

\* The scorer alone, run on given provider answers as the clock moves.
InitScoring ==
    /\ InitCalls
    /\ weights \in ScoringWeights
    /\ now = 0
    /\ n_requests = 0
    /\ n_jobs = 0
    /\ providers = RouterProviders
    /\ request_pool = ScoringRequests
    /\ uber_prices = {5, 100}
    /\ mock_workers = [p \in {"local_quickgig", "local_cityrunners"} |->
                          [w \in MockWorkerIds |-> TRUE]]

NextScoring ==
    \/ \E request \in request_pool, valid \in ScoringAnswers,
          max_quotes \in {1, DefaultMaxQuotes} :
          RankQuotes(request, valid, max_quotes)
    \/ RankQuotesAgain
    \/ RankQuotesReturn
    \/ Tick

SpecScoring == InitScoring /\ [][NextScoring]_vars

\* The component scores alone, applied to chosen inputs: the optimizer as
\* constructed, one tick of the clock left.
InitComponents ==
    /\ InitCommon
    /\ now = (MaxTicks - 1) * ClockStep
    /\ n_requests = 0
    /\ n_jobs = 0
    /\ providers = RouterProviders
    /\ request_pool = ScoringRequests
    /\ uber_prices = {12}
    /\ mock_workers = [p \in {"local_quickgig", "local_cityrunners"} |-> [w \in MockWorkerIds |-> TRUE]]

NextComponents ==
    \/ \E a \in CostValues, b \in CostValues : CostScores(a, b)
    \/ \E quote \in ComponentQuotes, request \in request_pool : ComponentScores(quote, request)
    \/ ComponentScoresReturn
    \/ Tick

SpecComponents == InitComponents /\ [][NextComponents]_vars

\* The push channel alone.
NextBroadcast ==
    \/ \E c \in WebSockets : Connect(c)
    \/ \E c \in WebSockets : ClientCloses(c)
    \/ \E c \in WebSockets : Disconnect(c)
    \/ BroadcastStart
    \/ SendTextEnds
    \/ BroadcastReturn

SpecBroadcast == InitComponents /\ [][NextBroadcast]_vars

\* Multi-stop ordering alone.
NextMultiStop ==
    \/ \E stops \in StopLists : OptimizeRoute(stops)
    \/ OptimizeRouteReturn

SpecMultiStop == InitComponents /\ [][NextMultiStop]_vars

\* The gateway as the API constructs it, with one mock and one HTTP provider.
Init ==
    /\ InitCommon
    /\ now = 0
    /\ n_requests = 0
    /\ n_jobs = 0
    /\ providers = GatewayProviders
    /\ request_pool = GatewayRequests
    /\ uber_prices = {12}
    /\ mock_workers \in [{"local_quickgig"} -> [MockWorkerIds -> BOOLEAN]]

Next ==
    \/ \E request \in request_pool : RequestMovementStart(request)
    \/ \E i \in 1..Len(providers) : MockQuoteReturns(i)
    \/ \E i \in 1..Len(providers) : HttpQuoteResponds(i)
    \/ \E i \in 1..Len(providers) : HttpQuoteTimesOut(i)
    \/ RequestMovementFinish
    \/ RequestMovementReturn
    \/ \E t \in 1..MaxAccepts, quote_id \in CallerQuoteIds, request \in request_pool :
          AcceptQuoteStart(t, quote_id, request)
    \/ \E t \in 1..MaxAccepts : CreateJobReturns(t)
    \/ \E t \in 1..MaxAccepts : CreateJobRaises(t)
    \/ \E job_id \in CallerJobIds : GetJobStatus(job_id)
    \/ \E job_id \in CallerJobIds : CancelJob(job_id)
    \/ \E job_id \in CallerJobIds : TrackJob(job_id)
    \/ CleanupExpiredQuotes
    \/ Tick

Spec == Init /\ [][Next]_vars

\* Quotes and their acceptance, without the job operations.
NextAccept ==
    \/ \E request \in request_pool : RequestMovementStart(request)
    \/ \E i \in 1..Len(providers) : MockQuoteReturns(i)
    \/ \E i \in 1..Len(providers) : HttpQuoteResponds(i)
    \/ \E i \in 1..Len(providers) : HttpQuoteTimesOut(i)
    \/ RequestMovementFinish
    \/ RequestMovementReturn
    \/ \E t \in 1..MaxAccepts, quote_id \in CallerQuoteIds, request \in request_pool :
          AcceptQuoteStart(t, quote_id, request)
    \/ \E t \in 1..MaxAccepts : CreateJobReturns(t)
    \/ \E t \in 1..MaxAccepts : CreateJobRaises(t)
    \/ CleanupExpiredQuotes
    \/ Tick

SpecAccept == Init /\ [][NextAccept]_vars

\* Requests and acceptances with the background cleanup task: one
\* request_movement call left to serve, one tick of the clock left.
InitCleanup ==
    /\ InitCommon
    /\ now = (MaxTicks - 1) * ClockStep
    /\ n_requests = MaxRequests - 1
    /\ n_jobs = 0
    /\ providers = GatewayProviders
    /\ request_pool = GatewayRequests
    /\ uber_prices = {12}
    /\ mock_workers \in [{"local_quickgig"} -> [MockWorkerIds -> BOOLEAN]]

NextCleanup ==
    \/ \E request \in request_pool : RequestMovementStart(request)
    \/ \E i \in 1..Len(providers) : MockQuoteReturns(i)
    \/ \E i \in 1..Len(providers) : HttpQuoteResponds(i)
    \/ \E i \in 1..Len(providers) : HttpQuoteTimesOut(i)
    \/ RequestMovementFinish
    \/ RequestMovementReturn
    \/ \E t \in 1..MaxAccepts, quote_id \in CallerQuoteIds, request \in request_pool :
          AcceptQuoteStart(t, quote_id, request)
    \/ \E t \in 1..MaxAccepts : CreateJobReturns(t)
    \/ \E t \in 1..MaxAccepts : CreateJobRaises(t)
    \/ CleanupTaskSweeps
    \/ CleanupTaskWakes
    \/ Tick

SpecCleanup == InitCleanup /\ [][NextCleanup]_vars

\* The event loop runs the cleanup task whenever it is ready, and its sleep
\* ends.
FairSpecCleanup ==
    SpecCleanup /\ WF_vars(CleanupTaskSweeps) /\ WF_vars(CleanupTaskWakes)

\* The job operations alone: one request_movement call left to serve, two
\* jobs left to create, one tick of the clock left.
InitJobs ==
    /\ InitCommon
    /\ now = (MaxTicks - 1) * ClockStep
    /\ n_requests = MaxRequests - 1
    /\ n_jobs = MaxJobs - 2
    /\ providers = GatewayProviders
    /\ request_pool = GatewayRequests
    /\ uber_prices = {12}
    /\ mock_workers \in [{"local_quickgig"} -> [MockWorkerIds -> BOOLEAN]]

NextJobs ==
    \/ \E request \in request_pool : RequestMovementStart(request)
    \/ \E i \in 1..Len(providers) : MockQuoteReturns(i)
    \/ \E i \in 1..Len(providers) : HttpQuoteResponds(i)
    \/ \E i \in 1..Len(providers) : HttpQuoteTimesOut(i)
    \/ RequestMovementFinish
    \/ RequestMovementReturn
    \/ \E t \in 1..MaxAccepts, quote_id \in CallerQuoteIds, request \in request_pool :
          AcceptQuoteStart(t, quote_id, request)
    \/ \E t \in 1..MaxAccepts : CreateJobReturns(t)
    \/ \E job_id \in CallerJobIds : GetJobStatus(job_id)
    \/ \E job_id \in CallerJobIds : CancelJob(job_id)
    \/ \E job_id \in CallerJobIds : TrackJob(job_id)
    \/ Tick

SpecJobs == InitJobs /\ [][NextJobs]_vars

\* The mock adapter alone: two jobs left to create, with or without a
\* requested pickup time, one tick of the clock left.
MockAdapterRequests ==
    [service_type : {"delivery"},
     priority : {"normal"},
     requested_pickup_time : {NoTime, 0},
     distance : {2}]

InitMockAdapter ==
    /\ InitCommon
    /\ now = (MaxTicks - 1) * ClockStep
    /\ n_requests = MaxRequests - 1
    /\ n_jobs = MaxJobs - 2
    /\ providers = GatewayProviders
    /\ request_pool = MockAdapterRequests
    /\ uber_prices = {12}
    /\ mock_workers \in [{"local_quickgig"} -> [MockWorkerIds -> BOOLEAN]]

NextMockAdapter ==
    \/ \E request \in request_pool : MockAdapterCreateJob("local_quickgig", request)
    \/ \E job_id \in DOMAIN active_jobs : MockAdapterGetJobStatus(job_id)
    \/ \E job_id \in DOMAIN active_jobs : MockAdapterCancelJob(job_id)
    \/ Tick

SpecMockAdapter == InitMockAdapter /\ [][NextMockAdapter]_vars

\* Requests through the API's authentication, and their fan-out.
NextAuth ==
    \/ \E credential \in Credentials, request \in request_pool :
          RequestMovementRoute(credential, request)
    \/ \E i \in 1..Len(providers) : MockQuoteReturns(i)
    \/ \E i \in 1..Len(providers) : HttpQuoteResponds(i)
    \/ \E i \in 1..Len(providers) : HttpQuoteTimesOut(i)
    \/ RequestMovementFinish
    \/ RequestMovementReturn
    \/ Tick

SpecAuth == InitRouter /\ [][NextAuth]_vars

\* Analytics beside the requests and acceptances that change what it counts.
NextAnalytics ==
    \/ \E request \in request_pool : RequestMovementStart(request)
    \/ \E i \in 1..Len(providers) : MockQuoteReturns(i)
    \/ \E i \in 1..Len(providers) : HttpQuoteResponds(i)
    \/ \E i \in 1..Len(providers) : HttpQuoteTimesOut(i)
    \/ RequestMovementFinish
    \/ RequestMovementReturn
    \/ \E t \in 1..MaxAccepts, quote_id \in CallerQuoteIds, request \in request_pool :
          AcceptQuoteStart(t, quote_id, request)
    \/ \E t \in 1..MaxAccepts : CreateJobReturns(t)
    \/ GetAnalyticsStart
    \/ \E i \in 1..Len(providers) : HealthCheckEnds(i)
    \/ HealthStatusFinish
    \/ GetAnalyticsFinish
    \/ GetAnalyticsReturn

SpecAnalytics == InitJobs /\ [][NextAnalytics]_vars

\* Acceptance through both routes, and cancellation.
NextEvents ==
    \/ \E request \in request_pool : RequestMovementStart(request)
    \/ \E i \in 1..Len(providers) : MockQuoteReturns(i)
    \/ \E i \in 1..Len(providers) : HttpQuoteResponds(i)
    \/ \E i \in 1..Len(providers) : HttpQuoteTimesOut(i)
    \/ RequestMovementFinish
    \/ RequestMovementReturn
    \/ \E t \in 1..MaxAccepts, quote_id \in CallerQuoteIds, request \in request_pool :
          AcceptQuoteStart(t, quote_id, request)
    \/ \E t \in 1..MaxAccepts, quote_id \in CallerQuoteIds :
          AcceptDeliveryAndBook(t, quote_id)
    \/ \E t \in 1..MaxAccepts : CreateJobReturns(t)
    \/ \E t \in 1..MaxAccepts : CreateJobRaises(t)
    \/ \E job_id \in CallerJobIds : CancelJob(job_id)
    \/ Tick

SpecEvents == InitJobs /\ [][NextEvents]_vars

\* ------------------------------------------------------------ claims
\* The jobs registered for a quote.
JobsOf(quote_id) == {j \in DOMAIN active_jobs : active_jobs[j].quote_id = quote_id}

\* An accept_quote call has ended.
Ended == last # NoAccept

\* C1: of the accept_quote calls made on one cached, unexpired quote, at most
\* one registers a job, and every call the provider served that did not
\* return the job failed with NotFound or Expired.
C1_AtMostOnceAcceptance ==
    /\ \A q \in CallerQuoteIds : Cardinality(JobsOf(q)) <= 1
    /\ (Ended /\ last.was_cached /\ ~last.was_expired
              /\ last.result.exc # "none" /\ last.result # CreateJobError)
          => /\ last.result \in {NotFoundError, ExpiredError}
             /\ last.registered = NoneId

\* C2: a quote id the sweep removed has no job registered for it and was
\* not consumed by an accept_quote.
C2_NeverAcceptedAndSwept ==
    /\ \A j \in DOMAIN active_jobs : active_jobs[j].quote_id \notin swept
    /\ consumed \cap swept = {}

\* C3: a step of get_job_status, cancel_job or track_job leaves the status
\* of every completed, cancelled or failed job as it is.
C3_TerminalStatusesStay ==
    [][(acc' = acc /\ n_jobs' = n_jobs) =>
          \A j \in DOMAIN active_jobs :
             active_jobs[j].status \in {"completed", "cancelled", "failed"}
                => active_jobs'[j].status = active_jobs[j].status]_vars

\* C4: when create_job raised, the call's quote is out of the cache and the
\* call registered no job.
C4_QuoteGoneWhenCreateJobRaises ==
    (Ended /\ last.result = CreateJobError)
       => /\ last.quote_id \notin DOMAIN active_quotes
          /\ last.registered = NoneId

\* C5: a quote an accept_quote consumed is not in the cache, and a call made
\* on it afterwards fails with NotFound, calls no provider and registers no
\* job.
C5_ConsumedQuoteIsGone ==
    /\ consumed \cap DOMAIN active_quotes = {}
    /\ (Ended /\ last.late)
          => /\ last.result = NotFoundError
             /\ ~last.called
             /\ last.registered = NoneId

C5_LateAcceptRefused ==
    /\ Ended
    /\ last.late
    /\ last.result = NotFoundError
    /\ JobsOf(last.quote_id) # {}

\* The final score the router ranked a quote by.
RankedScore(quote) == CalculateQuoteScore(quote, rm.request, weights, rm.ranked_at)

\* The providers of the call in flight whose get_quote returned a Quote.
Answered == {i \in DOMAIN rm.faults : rm.faults[i] = "ok"}

\* C6: request_movement returns, whatever subset of the providers raised or
\* returned None: the response holds exactly the quotes of the others, up
\* to the limit and in non-increasing score order, and recommends the first;
\* it is empty with no recommendation when no provider returned a quote.
C6_ProviderFaultIsolation ==
    rm.pc = "returned" =>
       LET quotes == rm.response.quotes
       IN /\ Len(quotes) = Min(DefaultMaxQuotes, Cardinality(Answered))
          /\ SeqToSet(quotes) \subseteq {rm.results[i].quote : i \in Answered}
          /\ \A a, b \in 1..Len(quotes) : a # b => quotes[a] # quotes[b]
          /\ \A k \in 1..(Len(quotes) - 1) :
                RankedScore(quotes[k]) >= RankedScore(quotes[k + 1])
          /\ rm.response.recommended_quote_id =
                IF Answered = {} THEN NoneId ELSE quotes[1].quote_id

C6_SomeFailSomeAnswer ==
    /\ rm.pc = "returned"
    /\ \E i \in DOMAIN rm.faults : rm.faults[i] = "raised"
    /\ \E i \in DOMAIN rm.faults : rm.faults[i] = "none"
    /\ Cardinality(Answered) >= 2
    /\ Len(rm.response.quotes) = Cardinality(Answered)

\* C7: a request_movement call that is gathering eventually returns, even
\* when a provider never answers; the provider whose request timed out
\* contributes nothing and every quote of the others is in the response.
C7_BoundedProviderCalls ==
    /\ (rm.pc = "gathering") ~> (rm.pc = "returned")
    /\ [](rm.pc = "returned" =>
            /\ \A i \in DOMAIN rm.faults :
                  rm.faults[i] = "timeout" =>
                     \A k \in 1..Len(rm.response.quotes) :
                        rm.response.quotes[k].provider_id # rm.suitable[i]
            /\ \A i \in Answered :
                  \E k \in 1..Len(rm.response.quotes) :
                     rm.response.quotes[k] = rm.results[i].quote)

C7_HungProviderDropped ==
    /\ rm.pc = "returned"
    /\ \E i \in DOMAIN rm.faults : rm.faults[i] = "timeout"
    /\ Answered # {}
    /\ Len(rm.response.quotes) = Cardinality(Answered)

\* C8: the effective weights sum to 1.0 within 0.01.
C8_WeightsSumToOne == Abs(SumValues(weights) - 100) <= WeightTolerance

\* C9: an update_weights call whose supplied values sum to more than 0.01
\* away from 1.0 raises and leaves the four weights as they were.
C9_RejectedUpdateKeepsWeights ==
    (wcall # NoWeightCall /\ Abs(SumValues(wcall.supplied) - 100) > WeightTolerance)
       => /\ wcall.outcome = "ValueError"
          /\ weights = wcall.before

C9_UpdateRejected ==
    /\ wcall # NoWeightCall
    /\ Abs(SumValues(wcall.supplied) - 100) > WeightTolerance
    /\ wcall.outcome = "ValueError"
    /\ wcall.before # DefaultWeights

\* Two errors a caller can tell apart by kind: by exception class, or by
\* the status the API answers with.
DistinctKinds(e1, e2) ==
    \/ e1.exc # e2.exc
    \/ AcceptQuoteRoute(e1).status_code # AcceptQuoteRoute(e2).status_code

\* C10: accept_quote on a cached quote past its expiry fails with an error
\* of another kind than NotFound, calls no provider and registers no job.
C10_ExpiredIsDistinctFromNotFound ==
    (Ended /\ last.was_expired)
       => /\ last.result.exc # "none"
          /\ DistinctKinds(last.result, NotFoundError)
          /\ ~last.called
          /\ last.registered = NoneId

\* A job operation has ended.
JobCallEnded == jlast # NoJobCall

\* C11: a call naming an unknown quote id or job id fails with NotFound,
\* which the API answers with 404, calls no provider and leaves the cache
\* and the registry as they were.
C11_UnknownIdIsNotFound ==
    /\ (Ended /\ ~last.was_cached)
          => /\ last.result = NotFoundError
             /\ AcceptQuoteRoute(last.result).status_code = 404
             /\ ~last.called
             /\ last.registered = NoneId
    /\ (JobCallEnded /\ ~jlast.known)
          => /\ jlast.result = JobNotFoundError
             /\ JobRoute(jlast.result).status_code = 404
             /\ ~jlast.called
             /\ jlast.after = jlast.before

\* Position of a status on the path pending, assigned, in_progress,
\* completed.
StatusRank(status) ==
    CASE status = "pending" -> 0 [] status = "assigned" -> 1
      [] status = "in_progress" -> 2 [] OTHER -> 3

TerminalStatuses == {"completed", "cancelled", "failed"}

\* A change of status the specification allows.
ForwardStep(from, to) ==
    \/ to = from
    \/ /\ from \notin TerminalStatuses
       /\ to \in {"cancelled", "failed"}
    \/ /\ from \notin TerminalStatuses
       /\ to \in {"assigned", "in_progress", "completed"}
       /\ StatusRank(to) > StatusRank(from)

\* C12: every change a job operation makes to a registered job's status is
\* a forward step, or a step to cancelled or failed from a non-terminal
\* status.
C12_StatusIsMonotonic ==
    (JobCallEnded /\ jlast.known) => ForwardStep(jlast.before.status, jlast.after.status)

\* C13: when request_movement returns, every quote of the response is in
\* the cache under its own id, the recommended id is the first quote's (none
\* for an empty list), and no step of the call changes the job registry.
C13_ResponseQuotesAreCached ==
    [][/\ rm' # rm => active_jobs' = active_jobs
       /\ (rm.pc # "returned" /\ rm'.pc = "returned") =>
             /\ \A k \in 1..Len(rm'.response.quotes) :
                   /\ rm'.response.quotes[k].quote_id \in DOMAIN active_quotes'
                   /\ active_quotes'[rm'.response.quotes[k].quote_id]
                         = rm'.response.quotes[k]
             /\ rm'.response.recommended_quote_id =
                   IF rm'.response.quotes = <<>> THEN NoneId
                   ELSE rm'.response.quotes[1].quote_id]_vars

C13_TwoQuotesCached ==
    /\ rm.pc = "returned"
    /\ Len(rm.response.quotes) = 2
    /\ \A k \in 1..2 : rm.response.quotes[k].quote_id \in DOMAIN active_quotes
    /\ rm.response.recommended_quote_id = rm.response.quotes[1].quote_id

\* No registered provider declares the service type.
NobodySupports(service_type) ==
    \A p \in SeqToSet(providers) : service_type \notin ProviderTable[p].services

\* C14: a request_movement call for a service type no provider declares
\* returns at once with no quote and no recommendation, and starts no
\* get_quote call.
C14_EmptyEligibility ==
    (rm.pc # "idle" /\ NobodySupports(rm.request.service_type))
       => /\ rm.pc = "returned"
          /\ rm.suitable = <<>>
          /\ rm.results = <<>>
          /\ rm.response.quotes = <<>>
          /\ rm.response.recommended_quote_id = NoneId

C14_FreightGetsNothing ==
    /\ rm.pc = "returned"
    /\ rm.request.service_type = "freight"
    /\ NobodySupports("freight")
    /\ rm.response.quotes = <<>>

\* C15: a get_job_status call for a registered job asks the owning
\* provider; when the provider returns a JobUpdate the registry entry's
\* status is the status of that JobUpdate, and when the provider's call
\* raises the registry entry is what it was.
C15_StatusMirrorsProvider ==
    [][(jlast' # jlast /\ jlast'.op = "get_job_status" /\ jlast'.known)
          => /\ jlast'.called
             /\ jlast'.job_id \in DOMAIN active_jobs
             /\ jlast'.job_id \in DOMAIN active_jobs'
             /\ IF jlast'.result.exc = "none"
                THEN active_jobs'[jlast'.job_id].status = jlast'.result.status
                ELSE active_jobs'[jlast'.job_id] = active_jobs[jlast'.job_id]]_vars

C15_StatusChangedByPoll ==
    /\ JobCallEnded
    /\ jlast.op = "get_job_status"
    /\ jlast.known
    /\ Kind(jlast.before.provider_id) = "uber"
    /\ jlast.result.exc = "none"
    /\ jlast.after.status # jlast.before.status
    /\ active_jobs[jlast.job_id].status = jlast.result.status

\* The steps that end a cancel_job call for a registered job.
CancelEnds ==
    jlast' # jlast /\ jlast'.op = "cancel_job" /\ jlast'.known

\* C16: a cancel_job call for a registered job returns the provider's
\* boolean; when it is true the registry entry's status becomes cancelled,
\* when it is false the registry entry is what it was; a job of the mock
\* provider is always cancelled.
C16_CancelFollowsProvider ==
    [][CancelEnds
          => /\ jlast'.called
             /\ jlast'.result.exc = "none"
             /\ jlast'.result.success \in CancelReplies(active_jobs[jlast'.job_id])
             /\ IF jlast'.result.success
                THEN active_jobs'[jlast'.job_id].status = "cancelled"
                ELSE active_jobs'[jlast'.job_id] = active_jobs[jlast'.job_id]
             /\ Kind(active_jobs[jlast'.job_id].provider_id) = "mock"
                   => jlast'.result.success]_vars

C16_NewMockJobCancelled ==
    /\ JobCallEnded
    /\ jlast.op = "cancel_job"
    /\ jlast.known
    /\ Kind(jlast.before.provider_id) = "mock"
    /\ Ended
    /\ last.registered = jlast.job_id
    /\ jlast.before.status = "assigned"
    /\ jlast.result.success
    /\ active_jobs[jlast.job_id].status = "cancelled"

\* C16 as the specification states it: cancelling the job the last
\* accept_quote created, before anything else touched it, succeeds.
C16_CancelOfNewJobSucceeds ==
    (/\ JobCallEnded
     /\ jlast.op = "cancel_job"
     /\ jlast.known
     /\ Ended
     /\ last.registered = jlast.job_id
     /\ jlast.before.status \in {"pending", "assigned"})
       => jlast.result.success

\* C17: a track_job call changes no entry of the job registry.
C17_TrackJobIsPassthrough ==
    [][(jlast' # jlast /\ jlast'.op = "track_job") => active_jobs' = active_jobs]_vars

\* The steps at which an accept_quote call returns a job.
AcceptReturns == last' # last /\ last'.result.exc = "none"

\* C18: the job a successful accept_quote returns is in the registry under
\* its id with status pending or assigned; no id leaves the registry; and a
\* get_job_status or track_job call for a registered id does not fail with
\* "not found".
C18_AcceptedJobIsRegistered ==
    [][/\ AcceptReturns
            => /\ last'.registered \in DOMAIN active_jobs'
               /\ active_jobs'[last'.registered].id = last'.registered
               /\ active_jobs'[last'.registered].status \in {"pending", "assigned"}
       /\ DOMAIN active_jobs \subseteq DOMAIN active_jobs'
       /\ (/\ jlast' # jlast
           /\ jlast'.op \in {"get_job_status", "track_job"}
           /\ jlast'.job_id \in DOMAIN active_jobs)
            => /\ jlast'.called
               /\ jlast'.result.exc # "ValueError"]_vars

C18_NewJobTracked ==
    /\ Ended
    /\ last.result.exc = "none"
    /\ JobCallEnded
    /\ jlast.op = "track_job"
    /\ jlast.job_id = last.registered
    /\ jlast.before.status \in {"pending", "assigned"}
    /\ jlast.result = TrackResult

\* C19: every registered job id stays registered and its entry stays the
\* job that was registered under it: no accept_quote replaces an entry by
\* another job.
C19_RegistryIsAppendOnly ==
    [][\A id \in DOMAIN active_jobs :
          /\ id \in DOMAIN active_jobs'
          /\ active_jobs'[id].job_no = active_jobs[id].job_no]_vars

\* C20: the dict get_provider_health_status returns has an entry for every
\* provider of the list; the entry of a provider whose health_check raised
\* is False, and every other entry is the boolean that provider's own
\* health_check returned.
C20_HealthMapIsComplete ==
    hc.pc = "returned"
       => /\ DOMAIN hc.response = SeqToSet(providers)
          /\ \A i \in 1..Len(providers) :
                hc.response[providers[i]] =
                   IF hc.results[i] = HealthRaised THEN FALSE
                   ELSE hc.results[i].value

C20_OneRaisedOthersReported ==
    /\ hc.pc = "returned"
    /\ \E i, j, k \in 1..Len(providers) :
          /\ hc.results[i] = HealthRaised
          /\ hc.response[providers[i]] = FALSE
          /\ hc.results[j] = HealthReturned(TRUE)
          /\ hc.response[providers[j]] = TRUE
          /\ hc.results[k] = HealthReturned(FALSE)
          /\ hc.response[providers[k]] = FALSE

\* The workers of the providers asked whose task returned a list, provider
\* by provider in the order asked.
WorkersOfLists(asked, results) ==
    LET RECURSIVE upto(_)
        upto(n) == IF n = 0 THEN <<>>
                   ELSE upto(n - 1) \o (IF results[n].tag = "list"
                                        THEN results[n].workers ELSE <<>>)
    IN upto(Len(asked))

\* C21: a get_available_workers call asks exactly the providers that declare
\* the service type; what it returns is the concatenation of the lists
\* returned, a provider that raised adding nothing; with no provider asked
\* it returns the empty list.
C21_WorkersAggregated ==
    /\ aw.pc # "idle"
         => /\ SeqToSet(aw.asked) =
                  {p \in SeqToSet(providers) : aw.service_type \in ProviderTable[p].services}
            /\ Len(aw.asked) = Cardinality(SeqToSet(aw.asked))
            /\ DOMAIN aw.results = DOMAIN aw.asked
    /\ aw.pc = "returned"
         => /\ aw.response = WorkersOfLists(aw.asked, aw.results)
            /\ aw.asked = <<>> => aw.response = <<>>

C21_OneRaisedOthersListed ==
    /\ aw.pc = "returned"
    /\ \E i \in DOMAIN aw.results : aw.results[i] = WorkersRaised
    /\ \E j \in DOMAIN aw.results : aw.results[j].tag = "list" /\ aw.results[j].workers # <<>>
    /\ aw.response # <<>>

\* C22: two runs of the scorer on the same request and the same provider
\* answers return the same ranking, whatever the clock shows at each run.
C22_RankingIsDeterministic ==
    (sc.pc = "ranked" /\ Len(sc.runs) = 2)
       => sc.runs[1].ranking = sc.runs[2].ranking

\* Two answers that differ in nothing the scorer reads but the pickup time,
\* the delivery following the pickup.
SamePickupAside(a, b) ==
    /\ a.estimated_cost = b.estimated_cost
    /\ a.estimated_duration_minutes = b.estimated_duration_minutes
    /\ a.confidence_score = b.confidence_score
    /\ a.worker_rating = b.worker_rating

\* C23: under urgent priority, of two quotes equal but for the pickup delay,
\* one 8 and one 25 minutes after the moment of scoring, the 8-minute quote
\* scores strictly higher and is ranked first, with or without a requested
\* pickup time.
C23_UrgentFavoursQuickPickup ==
    (/\ sc.pc = "ranked"
     /\ sc.request.priority = "urgent"
     /\ SamePickupAside(sc.valid[1], sc.valid[2]))
       => \A r \in DOMAIN sc.runs :
             (/\ sc.valid[1].estimated_pickup_time = sc.runs[r].clock + 8
              /\ sc.valid[2].estimated_pickup_time = sc.runs[r].clock + 25)
                => /\ sc.runs[r].scores[1] > sc.runs[r].scores[2]
                   /\ sc.runs[r].ranking[1] = sc.valid[1]

\* C24: job_created is broadcast for every accept_quote call that made a
\* job, whatever its caller, and for no call that failed; job_cancelled is
\* broadcast for a cancel_job call exactly when the provider reported
\* success.
C24_EventsFollowOutcomes ==
    /\ Ended => (last.broadcast <=> last.registered # NoneId)
    /\ (JobCallEnded /\ jlast.op = "cancel_job")
          => (jlast.broadcast <=> (jlast.known /\ jlast.result.success))

\* C25: the dict get_analytics returns is a snapshot of the registry and the
\* cache: total_jobs is the number of registry entries, each breakdown sums
\* to total_jobs, total_quotes_cached is the number of cache entries, and
\* the call changes neither the registry nor the cache.
C25_AnalyticsIsSnapshot ==
    [][/\ an' # an => (active_jobs' = active_jobs /\ active_quotes' = active_quotes)
       /\ (an.pc = "health" /\ an'.pc = "returned")
            => /\ an'.response.total_jobs = Cardinality(DOMAIN active_jobs)
               /\ SumValues(an'.response.status_breakdown) = an'.response.total_jobs
               /\ SumValues(an'.response.provider_breakdown) = an'.response.total_jobs
               /\ SumValues(an'.response.service_breakdown) = an'.response.total_jobs
               /\ an'.response.total_quotes_cached = Cardinality(DOMAIN active_quotes)]_vars

\* C26: a movement request whose API key is not a registered key is
\* rejected with 401 (or 403 when no key was sent) and does not reach
\* request_movement.
C26_UnregisteredKeyRejected ==
    (alast # NoRouteCall /\ alast.credential \notin RegisteredKeys)
       => /\ alast.status_code \in {401, 403}
          /\ ~alast.reached

\* C27: every quote in the quote cache expires strictly after the moment
\* its adapter issued it, and its confidence lies within [0, 1] (hundredths:
\* 0..100).
C27_CachedQuotesWellFormed ==
    \A q \in DOMAIN active_quotes :
       /\ active_quotes[q].expires_at > active_quotes[q].issued_at
       /\ active_quotes[q].confidence_score \in 0..100

\* A mock quote and an Uber quote issued after the clock moved are cached.
C27_MockAndUberQuotesCached ==
    /\ \E q \in DOMAIN active_quotes :
          Kind(active_quotes[q].provider_id) = "mock" /\ active_quotes[q].issued_at > 0
    /\ \E q \in DOMAIN active_quotes : Kind(active_quotes[q].provider_id) = "uber"

\* The quotes of the request in flight that are in the quote cache.
CachedOfRequest ==
    {q \in DOMAIN active_quotes : q[2] = rm.no}

\* C28: within one request_movement call, scoring, ranking and the cache
\* writes come after every eligible provider's quote call has returned or
\* failed: while a call of the request is pending nothing is ranked, the
\* response is empty and no quote of the request is cached.
C28_RankingWaitsForAllProviders ==
    (rm.pc \in {"gathering", "returned"}
       /\ \E i \in DOMAIN rm.results : rm.results[i].tag = "pending")
       => /\ rm.ranked_at = NoTime
          /\ rm.response.quotes = <<>>
          /\ CachedOfRequest = {}

\* A request whose fan-out had a quote and a timeout, ranked and cached.
C28_RankedAfterQuoteAndTimeout ==
    /\ rm.pc = "returned"
    /\ \E i \in DOMAIN rm.faults : rm.faults[i] = "timeout"
    /\ \E i \in DOMAIN rm.faults : rm.faults[i] = "ok"
    /\ rm.ranked_at # NoTime
    /\ CachedOfRequest # {}

\* The providers the claim names for a request: the service type is among
\* the declared ones and the coverage tags hold "global" or "local".
Eligible(p, request) ==
    /\ request.service_type \in ProviderTable[p].services
    /\ "global" \in ProviderTable[p].coverage \/ "local" \in ProviderTable[p].coverage

\* C29: during request_movement get_quote is called on exactly the
\* registered providers that declare the request's service type and a
\* coverage of "global" or "local", each once and in registration order;
\* every quote returned or cached for the request is one of theirs.
C29_OnlyEligibleProvidersAsked ==
    rm.pc # "idle"
       => /\ rm.suitable = SelectSeq(providers, LAMBDA p : Eligible(p, rm.request))
          /\ DOMAIN rm.results = DOMAIN rm.suitable
          /\ \A i \in DOMAIN rm.results :
                rm.results[i].tag = "quote"
                   => rm.results[i].quote.provider_id = rm.suitable[i]
          /\ \A i \in DOMAIN rm.response.quotes :
                Eligible(rm.response.quotes[i].provider_id, rm.request)
          /\ \A q \in DOMAIN active_quotes :
                q[2] = rm.no => Eligible(active_quotes[q].provider_id, rm.request)

\* A delivery request answered with quotes while the city-only provider,
\* which declares delivery, was left out.
C29_CityOnlyProviderLeftOut ==
    /\ rm.pc = "returned"
    /\ rm.request.service_type \in ProviderTable["regional"].services
    /\ "regional" \in SeqToSet(providers)
    /\ "regional" \notin SeqToSet(rm.suitable)
    /\ Len(rm.response.quotes) = 2

\* The ranking of a run is the first min(N, k) of the k valid quotes taken
\* by non-increasing score of that run, equal scores in fan-out order.
RankedAsClaimed(valid, run, N) ==
    LET k == Len(valid)
        m == Min(N, k)
        before(i, j) == \/ run.scores[i] > run.scores[j]
                        \/ run.scores[i] = run.scores[j] /\ i < j
    IN /\ Len(run.ranking) = m
       /\ \E idx \in [1..m -> 1..k] :
             /\ \A j \in 1..m : run.ranking[j] = valid[idx[j]]
             /\ \A j \in 1..(m - 1) : before(idx[j], idx[j + 1])
             /\ \A i \in 1..k :
                   (\A j \in 1..m : idx[j] # i) => \A j \in 1..m : before(idx[j], i)

\* C30: get_optimal_quotes returns the first min(N, k) of the k valid quotes
\* in the order of non-increasing final score, quotes of equal score in
\* provider fan-out order; request_movement asks for N = 5.
C30_TopQuotesByScore ==
    /\ DefaultMaxQuotes = 5
    /\ sc.pc = "ranked"
          => \A r \in DOMAIN sc.runs : RankedAsClaimed(sc.valid, sc.runs[r], sc.max_quotes)

\* Two answers of equal score ranked for N = 5: both returned, the first
\* provider's first.
C30_TieKeepsFanOutOrder ==
    /\ sc.pc = "ranked"
    /\ sc.max_quotes = DefaultMaxQuotes
    /\ sc.runs[1].scores[1] = sc.runs[1].scores[2]
    /\ sc.runs[1].ranking = sc.valid

\* C31: a cleanup_expired_quotes run at time now that removes anything
\* leaves in the quote cache exactly the entries that were there and whose
\* expiry has not passed at now, each unchanged, and leaves the job registry
\* and the workers as they were.
C31_CleanupKeepsUnexpired ==
    [][swept' # swept
          => /\ active_quotes' =
                   [q \in {x \in DOMAIN active_quotes : active_quotes[x].expires_at >= now}
                      |-> active_quotes[q]]
             /\ active_jobs' = active_jobs
             /\ mock_workers' = mock_workers]_vars

\* A sweep removed one quote of a request and kept another quote of the
\* same request, which expires later.
C31_SweptOneKeptAnother ==
    \E s \in swept, q \in DOMAIN active_quotes :
       /\ s[2] = q[2]
       /\ s \notin DOMAIN active_quotes
       /\ active_quotes[q].expires_at >= now

\* The ids a quote of the gateway's providers can have.
GatewayQuoteIds == {<<p, n>> : p \in {"local_quickgig", "uber"}, n \in 1..MaxRequests}

\* C32: the cleanup task goes round for as long as the process lives, so a
\* quote that is cached and whose expiry has passed is eventually no longer
\* in the quote cache.
C32_ExpiredQuotesEventuallyRemoved ==
    \A q \in GatewayQuoteIds :
       (q \in DOMAIN active_quotes /\ now > active_quotes[q].expires_at)
          ~> (q \notin DOMAIN active_quotes)

\* A quote nobody accepted was removed by a sweep after the task had slept.
C32_SweptAfterSleep ==
    /\ swept # {}
    /\ consumed = {}
    /\ cleanup_task = "sleeping"
    /\ now > 0

\* C33: the cost score is 1.0 for a cost at or below 5, 0.1 for a cost at or
\* above 100 and max(0.1, 1 - (cost - 5)/95) in between; it never rises
\* with the cost and lies within [0.1, 1.0].
C33_CostScoreShape ==
    sc.pc = "cost"
       => /\ \A i \in 1..2 :
                /\ sc.costs[i] <= 5 => sc.scores[i] = One
                /\ sc.costs[i] >= 100 => sc.scores[i] = One \div 10
                /\ (sc.costs[i] > 5 /\ sc.costs[i] < 100)
                      => sc.scores[i] = Max(One \div 10, One - ((sc.costs[i] - 5) * One) \div 95)
                /\ sc.scores[i] >= One \div 10
                /\ sc.scores[i] <= One
          /\ sc.costs[1] <= sc.costs[2] => sc.scores[1] >= sc.scores[2]

\* Two costs between the limits, one where the line is above 0.1 and one
\* where the floor of 0.1 applies.
C33_LineAndFloor ==
    /\ sc.pc = "cost"
    /\ sc.costs[1] > 5 /\ sc.costs[1] < sc.costs[2] /\ sc.costs[2] < 100
    /\ sc.scores[1] > One \div 10
    /\ sc.scores[1] < One
    /\ sc.scores[2] = One \div 10

\* C34: each of the four component scores of a quote (cost, time,
\* reliability, quality) lies within [0, 1], also when the quoted pickup is
\* already past or the quoted delivery is not after the pickup.
C34_ComponentsWithinUnit ==
    sc.pc = "components"
       => /\ sc.cost \in 0..One
          /\ sc.time \in 0..One
          /\ sc.reliability \in 0..One
          /\ sc.quality \in 0..One

\* C35: the quality score is rating/5 whenever the quote's worker has a
\* rating, a rating of 0 included (score 0.0), and the neutral 0.7 exactly
\* when there is no worker or no rating.
C35_QualityFollowsRating ==
    sc.pc = "components"
       => IF sc.quote.worker_rating = NoRating
          THEN sc.quality = (7 * One) \div 10
          ELSE sc.quality = (sc.quote.worker_rating * One) \div 10

\* C36: for a stop list of two or more stops the legs of the multi-stop
\* ordering number one less than the stops, form one chain from the first
\* stop to the last, go through every intermediate stop exactly once, and
\* each leg but the last ends at an unvisited intermediate stop that is at
\* the least distance from where the leg starts.
C36_NearestNeighbourChain ==
    (sc.pc = "routed" /\ Len(sc.stops) >= 2)
       => LET n == Len(sc.stops)
              legs == sc.legs
          IN /\ Len(legs) = n - 1
             /\ legs[1][1] = sc.stops[1]
             /\ legs[n - 1][2] = sc.stops[n]
             /\ \A i \in 1..(n - 2) : legs[i][2] = legs[i + 1][1]
             /\ \E visit \in [1..(n - 2) -> 2..(n - 1)] :
                   /\ \A i, j \in 1..(n - 2) : visit[i] = visit[j] => i = j
                   /\ \A i \in 1..(n - 2) : legs[i][2] = sc.stops[visit[i]]
             /\ \A i \in 1..(n - 2) : \A j \in i..(n - 2) :
                   CalculateDistance(legs[i][1], legs[i][2])
                      <= CalculateDistance(legs[i][1], legs[j][2])

\* A list of five stops whose intermediate stops are visited in another
\* order than the one given.
C36_StopsReordered ==
    /\ sc.pc = "routed"
    /\ Len(sc.stops) = 5
    /\ sc.legs[1][2] = sc.stops[4]
    /\ sc.legs[2][2] = sc.stops[2]
    /\ sc.stops[2] # sc.stops[4]

\* C37: an accept_quote call that raised, whatever ran between its start
\* and its end, registered no job: the job registry holds no job created by
\* that call.
C37_FailedAcceptRegistersNothing ==
    (Ended /\ last.result.exc # "none")
       => last.registered = NoneId

\* C38: in the mock provider no worker is the assigned worker of two jobs
\* that are both not terminal, and a worker marked available is the assigned
\* worker of no job that is not terminal.
C38_WorkersMatchJobs ==
    /\ \A j, k \in DOMAIN active_jobs :
          (/\ j # k
           /\ active_jobs[j].assigned_worker # NoWorker
           /\ active_jobs[j].assigned_worker = active_jobs[k].assigned_worker
           /\ active_jobs[j].provider_id = active_jobs[k].provider_id)
             => \/ active_jobs[j].status \in TerminalStatuses
                \/ active_jobs[k].status \in TerminalStatuses
    /\ \A j \in DOMAIN active_jobs :
          (/\ Kind(active_jobs[j].provider_id) = "mock"
           /\ active_jobs[j].assigned_worker # NoWorker
           /\ mock_workers[active_jobs[j].provider_id][active_jobs[j].assigned_worker])
             => active_jobs[j].status \in TerminalStatuses

\* C39: when a broadcast is over, every websocket that was connected when
\* it began and whose client has not closed it has received the message,
\* whatever connected, closed or was disconnected meanwhile; and no
\* websocket whose send failed is left among the connections.
C39_BroadcastReachesAllConnected ==
    ws.pc = "done"
       => /\ \A c \in ws.present \ ws.closed : c \in ws.delivered
          /\ \A i \in DOMAIN ws.disconnected :
                \A k \in DOMAIN ws.active_connections :
                   ws.active_connections[k] # ws.disconnected[i]

====
